---- MODULE Spec2Model ----
(***************************************************************************)
(* A model of the Luau compatibility layer of RE-UE4SS: the Lua 5.4 API    *)
(* shims of LuauCompat (tag registry, destructor registration, tagged      *)
(* userdata, user values, 64-bit integers, source loading, stack           *)
(* manipulation, debug frames, hooks), of the metatable metadata helper of  *)
(* LuaMadeSimple, and of the io library.                                   *)
(*                                                                         *)
(* Each component has its own specification over the shared variables:     *)
(*   SpecTag   get_or_create_tag called from several threads               *)
(*   SpecDtor  get_or_create_tag, register_destructor, newuserdata_tagged  *)
(*   SpecUV    lua_newuserdatauv, lua_setiuservalue, lua_getiuservalue     *)
(*   SpecNum   lua_pushinteger_64, lua_tointeger_64                        *)
(*   SpecLoad  luaL_loadstring, luaL_loadbuffer                            *)
(*   SpecLoadFile  the same and luaL_loadfile                              *)
(*   SpecStack lua_rotate, lua_copy                                        *)
(*   SpecMeta  store_on_metatable_if_absent                                *)
(*   SpecDebug lua_getstack, luau_getinfo_3arg, luau_getlocal_3arg         *)
(*   SpecFrame the same on one thread, with the lua_Debug handles passed   *)
(*   SpecHook  lua_sethook, lua_gethook, lua_gethookmask, lua_gethookcount *)
(*   SpecIo    io.open and the file handle methods of LuauIOLibrary        *)
(*   SpecIoLines  the same with io.lines, file:lines and finalization      *)
(***************************************************************************)
EXTENDS Integers, Sequences, FiniteSets, TLC

VARIABLES
    \* ---- LuauCompat::get_or_create_tag: its three function-local statics
    tag_map,        \* static std::unordered_map<std::string,int>: name -> tag
    next_tag,       \* static int next_tag
    tag_mutex,      \* static std::mutex: the thread holding it, or NoThread
    \* ---- each thread's position in get_or_create_tag and its locals
    pc,             \* thread -> "idle", "lock", "find", "assign", "got"
    metatable_name, \* thread -> the argument of the call in progress, 0 if none
    ret,            \* thread -> the value the last call returned
    \* ---- history of the calls (observations, not program state)
    returned,       \* name -> the set of tags calls with that name returned
    passed,         \* the names passed to get_or_create_tag so far
    h_full,         \* thread -> MAX_USERDATA_TAGS names were passed before its call
    h_new,          \* thread -> its call's name had not been passed before
    h_prev,         \* thread -> the tag its name had when the call began, 0 if none
    \* ---- the VM's userdata facilities, as LuauCompat drives them
    udatagc,        \* tag -> the destructor lua_setuserdatadtor bound to it
    dtor_after_get, \* thread -> tags it passed to lua_setuserdatadtor after get_or_create_tag
    alloc,          \* the last allocation request made by newuserdata_tagged
    \* ---- the lua_State the user-value shims work on
    L,              \* [stack, env, tables]: the stack, each userdata's
                    \* environment table (0: none), the tables' contents
    uv_shadow,      \* history: userdata -> index -> the value last set there
    uv_last,        \* history: the lua_getiuservalue or lua_setiuservalue call, if
                    \* it was the last step
    \* ---- a 64-bit integer pushed as a lua_Number and read back
    num_pc,         \* "start", "pushed" (by lua_pushinteger_64), "number"
                    \* (by lua_pushnumber), "read"
    num_arg,        \* the int64_t given to lua_pushinteger_64
    num_top,        \* the lua_Number (a double) on top of the stack
    num_result,     \* the int64_t lua_tointeger_64 returned
    \* ---- the last luaL_loadstring / luaL_loadbuffer call
    load,           \* [entry, source, compiled, bytecode, status, pushed, msg, native]
    file,           \* what the last luaL_loadfile found at its path, the calls it made
    \* ---- lua_rotate and lua_copy, on the stack of L
    st_last,        \* history: the last stack shim call and the stack before it
    mt_last,        \* history: the last store_on_metatable_if_absent call, the
                    \* state before it and its result
    \* ---- the debug shims: lua_getstack, luau_getinfo_3arg, luau_getlocal_3arg
    s_current_debug_level, \* thread_local int: thread -> the stored level
    depth,          \* thread -> lua_stackdepth of the state the thread drives
    dbg_ret,        \* thread -> its last lua_getstack call: the level, whether it
                    \* was within 0..depth-1 (history), the result
    queried,        \* thread -> the last call made to the native lua_getinfo / lua_getlocal
    ar,             \* frame handle -> the fields of the caller's lua_Debug
    ar_hist,        \* history: the level each handle was captured with, the level
                    \* of the last successful capture, the handle last queried
    \* ---- the hook shims
    hook,           \* the hook the VM holds: the shims never write it
    hook_ret,       \* what the last hook shim call returned
    \* ---- the io library on one file
    disk,           \* the bytes of the file, or Absent
    handles,        \* handle -> LuaFileHandle: is_open, the mode's flags, the position
    io_ret,         \* the values the last io call returned
    io_hist,        \* history: how far the write-close-reopen-read sequence got
    io_last         \* history: the last io call, its handle, whether that was open

regVars == <<tag_map, next_tag, tag_mutex, pc, metatable_name, ret>>
histVars == <<returned, passed, h_full, h_new, h_prev>>
dtorVars == <<udatagc, dtor_after_get, alloc>>
uvVars == <<L, uv_shadow, uv_last>>
numVars == <<num_pc, num_arg, num_top, num_result>>
stkVars == <<st_last, mt_last>>
dbgVars == <<s_current_debug_level, depth, dbg_ret, queried, ar, ar_hist>>
hookVars == <<hook, hook_ret>>
ioVars == <<disk, handles, io_ret, io_hist, io_last>>
extVars == <<file, stkVars, dbgVars, hookVars, ioVars>>
vars == <<regVars, histVars, dtorVars, uvVars, numVars, load, extVars>>

----------------------------------------------------------------------------
(* Bounds of the model *)

\* names the threads call get_or_create_tag with, besides one older name
NumNames == 3
\* how far next_tag may run past MAX_USERDATA_TAGS (each refused call adds 1)
MaxOverflow == 3
\* the stack slots the callers of the user-value shims use
MaxStack == 2
\* the longest source text, diagnostic and bytecode payload of a load
MaxText == 2
\* the deepest call stack of a Lua state
MaxDepth == 2

(* Program constants *)

\* constexpr int MAX_USERDATA_TAGS = 256;
MAX_USERDATA_TAGS == 256

Threads == {"t1", "t2"}
NoThread == "none"

\* Names are numbered.  Negative numbers are the names registered before the
\* threads of the model start: OlderNames(p) are p of them.
OlderNames(p) == {-i : i \in 1..p}
Names == 1..NumNames
CallNames == Names \cup {-1}

\* The registry after p first calls with p distinct names, none concurrent:
\* the i-th name got tag i.  p is 0 (a fresh process) or close enough to
\* MAX_USERDATA_TAGS for the threads to exhaust the tags.
Prefills == {0, MAX_USERDATA_TAGS - 2}

----------------------------------------------------------------------------
(* get_or_create_tag *)

\* if (tag >= MAX_USERDATA_TAGS)
TagsExhaustedNoLimit(t) == FALSE
TagsExhausted(t) == t >= MAX_USERDATA_TAGS

\* next_tag++ : the counter after the post-increment
IncrementedStuck(n) == n
IncrementedByTwo(n) == n + 2
Incremented(n) == n + 1

\* std::lock_guard<std::mutex> lock(tag_mutex): whether the mutex can be taken
MutexFreeNoLock(m) == TRUE
MutexFree(m) == m = NoThread

\* the call: get_or_create_tag(L, name) begins on thread t
Call(t, name) ==
    /\ pc[t] = "idle"
    /\ pc' = [pc EXCEPT ![t] = "lock"]
    /\ metatable_name' = [metatable_name EXCEPT ![t] = name]
    /\ passed' = passed \cup {name}
    /\ h_full' = [h_full EXCEPT ![t] = Cardinality(passed) >= MAX_USERDATA_TAGS]
    /\ h_new' = [h_new EXCEPT ![t] = name \notin passed]
    /\ h_prev' = [h_prev EXCEPT ![t] =
                    IF name \in DOMAIN tag_map THEN tag_map[name] ELSE 0]
    /\ UNCHANGED <<tag_map, next_tag, tag_mutex, ret, returned, dtorVars, uvVars, numVars, load, extVars>>

\* std::lock_guard<std::mutex> lock(tag_mutex);
Lock(t) ==
    /\ pc[t] = "lock"
    /\ MutexFree(tag_mutex)
    /\ tag_mutex' = t
    /\ pc' = [pc EXCEPT ![t] = "find"]
    /\ UNCHANGED <<tag_map, next_tag, metatable_name, ret, histVars, dtorVars, uvVars, numVars, load, extVars>>

\* what a return does: the lock_guard releases, the caller sees the value
Return(t, value) ==
    /\ tag_mutex' = NoThread
    /\ ret' = [ret EXCEPT ![t] = value]
    /\ returned' = [returned EXCEPT ![metatable_name[t]] = @ \cup {value}]
    /\ pc' = [pc EXCEPT ![t] = "got"]

\* auto it = tag_map.find(metatable_name); if (it != end) return it->second;
Find(t) ==
    /\ pc[t] = "find"
    /\ IF metatable_name[t] \in DOMAIN tag_map
       THEN Return(t, tag_map[metatable_name[t]])
       ELSE /\ pc' = [pc EXCEPT ![t] = "assign"]
            /\ UNCHANGED <<tag_mutex, ret, returned>>
    /\ UNCHANGED <<tag_map, next_tag, metatable_name, passed, h_full, h_new,
                   h_prev, dtorVars, uvVars, numVars, load, extVars>>

\* int tag = next_tag++;
\* if (tag >= MAX_USERDATA_TAGS) return 0;
\* tag_map[metatable_name] = tag;  return tag;
Assign(t) ==
    /\ pc[t] = "assign"
    /\ next_tag < MAX_USERDATA_TAGS + MaxOverflow
    /\ next_tag' = Incremented(next_tag)
    /\ LET tag == next_tag
       IN  IF TagsExhausted(tag)
           THEN /\ Return(t, 0)
                /\ UNCHANGED tag_map
           ELSE /\ tag_map' = [n \in DOMAIN tag_map \cup {metatable_name[t]} |->
                                 IF n = metatable_name[t] THEN tag ELSE tag_map[n]]
                /\ Return(t, tag)
    /\ UNCHANGED <<metatable_name, passed, h_full, h_new, h_prev, dtorVars, uvVars, numVars, load, extVars>>

\* the caller is done with the tag it received
Done(t) ==
    /\ pc[t] = "got"
    /\ pc' = [pc EXCEPT ![t] = "idle"]
    /\ metatable_name' = [metatable_name EXCEPT ![t] = 0]
    /\ ret' = [ret EXCEPT ![t] = 0]
    /\ h_full' = [h_full EXCEPT ![t] = FALSE]
    /\ h_new' = [h_new EXCEPT ![t] = FALSE]
    /\ h_prev' = [h_prev EXCEPT ![t] = 0]
    /\ UNCHANGED <<tag_map, next_tag, tag_mutex, returned, passed, dtorVars, uvVars, numVars, load, extVars>>

----------------------------------------------------------------------------
(* register_destructor and newuserdata_tagged *)

Dtors == {"f", "g"}
\* tags a caller may pass on its own: below, at and above both range ends
TagInputs == {-1, 0, 1, 2, MAX_USERDATA_TAGS - 1, MAX_USERDATA_TAGS,
              MAX_USERDATA_TAGS + 1}

\* lua_setuserdatadtor(L, tag, dtor): the VM stores dtor in the tag's slot
lua_setuserdatadtor(gc, tg, dtor) ==
    [x \in DOMAIN gc \cup {tg} |-> IF x = tg THEN dtor ELSE gc[x]]

\* if (tag > 0 && tag < MAX_USERDATA_TAGS)
DtorTagAccepted(tg) == tg > 0 /\ tg < MAX_USERDATA_TAGS

\* register_destructor(L, tag, dtor): the destructor table after the call
register_destructor(gc, tg, dtor) ==
    IF DtorTagAccepted(tg) THEN lua_setuserdatadtor(gc, tg, dtor) ELSE gc

\* newuserdata_tagged(L, sz, tag): the allocation it asks the VM for
newuserdata_tagged(tg) ==
    IF tg > 0
    THEN [kind |-> "tagged", tag |-> tg]    \* lua_newuserdatatagged(L, sz, tag)
    ELSE [kind |-> "plain", tag |-> 0]      \* lua_newuserdata(L, sz)

\* a caller passes the tag get_or_create_tag just gave it to register_destructor
RegisterAfterGet(t, dtor) ==
    /\ pc[t] = "got"
    /\ udatagc' = register_destructor(udatagc, ret[t], dtor)
    /\ dtor_after_get' = [dtor_after_get EXCEPT ![t] =
                            IF DtorTagAccepted(ret[t]) THEN @ \cup {ret[t]} ELSE @]
    /\ pc' = [pc EXCEPT ![t] = "idle"]
    /\ metatable_name' = [metatable_name EXCEPT ![t] = 0]
    /\ ret' = [ret EXCEPT ![t] = 0]
    /\ h_full' = [h_full EXCEPT ![t] = FALSE]
    /\ h_new' = [h_new EXCEPT ![t] = FALSE]
    /\ h_prev' = [h_prev EXCEPT ![t] = 0]
    /\ UNCHANGED <<tag_map, next_tag, tag_mutex, returned, passed, alloc, uvVars, numVars, load, extVars>>

\* register_destructor(L, tag, dtor) with any tag
RegisterDestructor(t, tg, dtor) ==
    /\ pc[t] = "idle"
    /\ udatagc' = register_destructor(udatagc, tg, dtor)
    /\ UNCHANGED <<regVars, histVars, dtor_after_get, alloc, uvVars, numVars, load, extVars>>

\* newuserdata_tagged(L, sz, tag) with any tag
NewUserdataTagged(t, tg) ==
    /\ pc[t] = "idle"
    /\ alloc' = newuserdata_tagged(tg)
    /\ UNCHANGED <<regVars, histVars, udatagc, dtor_after_get, uvVars, numVars, load, extVars>>

----------------------------------------------------------------------------
(* The VM primitives the user-value shims are written with.  A userdata's *)
(* environment is the association the shim's comments rely on: lua_setfenv *)
(* attaches a table to the userdata, lua_getfenv pushes it, or nil when   *)
(* there is none.                                                         *)

Nil == [t |-> "nil", v |-> 0]
Str(i) == [t |-> "str", v |-> i]
Ud(i) == [t |-> "ud", v |-> i]
Tbl(i) == [t |-> "tbl", v |-> i]

\* the userdata the model creates, the indices and the strings callers use
UdIds == {1, 2}
UVIndices == {1, 2}
UVStrings == {Str(1)}
\* the declared user-value counts passed to lua_newuserdatauv
UVCounts == {0, 2}

Top(vm) == vm.stack[Len(vm.stack)]
\* lua_absindex
lua_absindex(vm, idx) == IF idx > 0 THEN idx ELSE Len(vm.stack) + idx + 1
ValidIndex(vm, idx) == lua_absindex(vm, idx) \in 1..Len(vm.stack)
At(vm, idx) == vm.stack[lua_absindex(vm, idx)]
Push(vm, val) == [vm EXCEPT !.stack = Append(@, val)]
lua_pushvalue(vm, idx) == Push(vm, At(vm, idx))
lua_pop(vm, n) == [vm EXCEPT !.stack = SubSeq(@, 1, Len(@) - n)]
\* the same, removing nothing
remove_nothing(vm, idx) == vm
lua_remove(vm, idx) ==
    LET i == lua_absindex(vm, idx)
    IN  [vm EXCEPT !.stack = SubSeq(@, 1, i - 1) \o SubSeq(@, i + 1, Len(@))]
lua_newuserdata(vm) ==
    [vm EXCEPT !.env = Append(@, 0), !.stack = Append(@, Ud(Len(vm.env) + 1))]
lua_createtable(vm) ==
    [vm EXCEPT !.tables = Append(@, <<>>),
               !.stack = Append(@, Tbl(Len(vm.tables) + 1))]
lua_getfenv(vm, idx) ==
    LET o == At(vm, idx)
    IN  IF o.t = "ud" /\ vm.env[o.v] # 0 THEN Push(vm, Tbl(vm.env[o.v]))
        ELSE Push(vm, Nil)
lua_setfenv(vm, idx) ==
    LET o == At(vm, idx)
    IN  lua_pop([vm EXCEPT !.env[o.v] = Top(vm).v], 1)
RawGet(tbl, n) == IF n \in DOMAIN tbl THEN tbl[n] ELSE Nil
RawSet(tbl, n, val) ==
    IF val = Nil THEN [k \in DOMAIN tbl \ {n} |-> tbl[k]]
    ELSE [k \in DOMAIN tbl \cup {n} |-> IF k = n THEN val ELSE tbl[k]]
lua_rawgeti(vm, idx, n) == Push(vm, RawGet(vm.tables[At(vm, idx).v], n))
lua_rawseti(vm, idx, n) ==
    lua_pop([vm EXCEPT !.tables[At(vm, idx).v] = RawSet(@, n, Top(vm))], 1)

----------------------------------------------------------------------------
(* User values: lua_newuserdatauv, lua_getiuservalue, lua_setiuservalue *)

lua_newuserdatauv(vm, nuvalue) ==
    LET v1 == lua_newuserdata(vm)
    IN  IF nuvalue > 0
        THEN lua_setfenv(lua_createtable(v1), -2)
        ELSE v1

\* the same without lua_remove: the environment table stays below the value
getiuservalue_keeping_table(vm, idx0, n) ==
    LET idx == lua_absindex(vm, idx0)
        v1 == lua_getfenv(vm, idx)
    IN  IF Top(v1) = Nil
        THEN v1
        ELSE lua_rawgeti(v1, -1, n)

lua_getiuservalue(vm, idx0, n) ==
    LET idx == lua_absindex(vm, idx0)
        v1 == lua_getfenv(vm, idx)
    IN  IF Top(v1) = Nil
        THEN v1
        ELSE lua_remove(lua_rawgeti(v1, -1, n), -2)

\* the same without lua_setfenv: the new table is never attached
setiuservalue_unattached(vm, idx0, n) ==
    LET idx == lua_absindex(vm, idx0)
        v1 == lua_getfenv(vm, idx)
        v2 == IF Top(v1) = Nil
              THEN lua_createtable(lua_pop(v1, 1))
              ELSE v1
        v3 == lua_pushvalue(v2, -2)
        v4 == lua_rawseti(v3, -2, n)
    IN  lua_pop(v4, 2)

lua_setiuservalue(vm, idx0, n) ==
    LET idx == lua_absindex(vm, idx0)
        v1 == lua_getfenv(vm, idx)
        v2 == IF Top(v1) = Nil
              THEN lua_setfenv(lua_pushvalue(lua_createtable(lua_pop(v1, 1)), -1),
                               idx)
              ELSE v1
        v3 == lua_pushvalue(v2, -2)
        v4 == lua_rawseti(v3, -2, n)
    IN  lua_pop(v4, 2)

UVInputs == {Nil} \cup UVStrings \cup {Ud(u) : u \in UdIds}
StackIndices == (1..MaxStack) \cup {-i : i \in 1..MaxStack}
NoCall == [op |-> "none", obj |-> 0, n |-> 0]

\* lua_newuserdatauv(L, sz, nuvalue)
NewUserdataUV(nuvalue) ==
    /\ Len(L.stack) < MaxStack
    /\ Len(L.env) < Cardinality(UdIds)
    /\ L' = lua_newuserdatauv(L, nuvalue)
    /\ uv_last' = NoCall
    /\ UNCHANGED <<uv_shadow, regVars, histVars, dtorVars, numVars, load, extVars>>

\* the caller pushes a value: nil, a string, or a userdata it holds
PushAny(val) ==
    /\ Len(L.stack) < MaxStack
    /\ val.t = "ud" => val.v <= Len(L.env)
    /\ L' = Push(L, val)
    /\ uv_last' = NoCall
    /\ UNCHANGED <<uv_shadow, regVars, histVars, dtorVars, numVars, load, extVars>>

\* lua_pop(L, 1) by the caller
PopOne ==
    /\ Len(L.stack) > 0
    /\ L' = lua_pop(L, 1)
    /\ uv_last' = NoCall
    /\ UNCHANGED <<uv_shadow, regVars, histVars, dtorVars, numVars, load, extVars>>

\* lua_setiuservalue(L, idx, n): idx names a userdata, the value is on top
SetUservalue(idx, n) ==
    /\ ValidIndex(L, idx)
    /\ At(L, idx).t = "ud"
    /\ L' = lua_setiuservalue(L, idx, n)
    /\ uv_shadow' = [uv_shadow EXCEPT ![At(L, idx).v][n] = Top(L)]
    /\ uv_last' = [op |-> "set", obj |-> At(L, idx).v, n |-> n]
    /\ UNCHANGED <<regVars, histVars, dtorVars, numVars, load, extVars>>

\* lua_getiuservalue(L, idx, n): idx names a userdata
GetUservalue(idx, n) ==
    /\ ValidIndex(L, idx)
    /\ At(L, idx).t = "ud"
    /\ Len(L.stack) < MaxStack
    /\ L' = lua_getiuservalue(L, idx, n)
    /\ uv_last' = [op |-> "get", obj |-> At(L, idx).v, n |-> n]
    /\ UNCHANGED <<uv_shadow, regVars, histVars, dtorVars, numVars, load, extVars>>

----------------------------------------------------------------------------
(* 64-bit integers as doubles: lua_pushinteger_64, lua_tointeger_64.       *)
(* An int64_t is [neg, hi, lo], of magnitude hi * 2^30 + lo with           *)
(* 0 <= lo < 2^30; a double is the same with half = TRUE for a fraction    *)
(* of one half.  The magnitudes of the model stay below 2^60.              *)

RECURSIVE Pow2(_)
Pow2(k) == IF k = 0 THEN 1 ELSE 2 * Pow2(k - 1)
Limb == Pow2(30)
\* the number of bits of x, for 0 <= x < 2^30
BitLen(x) == CHOOSE k \in 0..30 : (k = 0 \/ Pow2(k - 1) <= x) /\ (k = 30 \/ x < Pow2(k))

Int64(neg, hi, lo) == [neg |-> neg /\ (hi # 0 \/ lo # 0), hi |-> hi, lo |-> lo]
Double(neg, hi, lo, half) == [neg |-> neg, hi |-> hi, lo |-> lo, half |-> half]

\* static_cast<double>(n) of an int64_t: the nearest double, that is the top
\* 53 bits of the magnitude, the rest rounded to nearest, ties to even
IntToDouble(n) ==
    IF n.hi < Pow2(23)
    THEN Double(n.neg, n.hi, n.lo, FALSE)
    ELSE LET q == Pow2(BitLen(n.hi) - 23)    \* the weight of the last kept bit
             r == n.lo % q
             down == n.lo - r
             odd == (n.lo \div q) % 2 = 1
             up == 2 * r > q \/ (2 * r = q /\ odd)
             lo2 == IF up THEN down + q ELSE down
         IN  IF lo2 = Limb
             THEN Double(n.neg, n.hi + 1, 0, FALSE)
             ELSE Double(n.neg, n.hi, lo2, FALSE)

\* static_cast<int64_t>(d) of a double: truncation toward zero
DoubleToInt(d) == Int64(d.neg, d.hi, d.lo)

\* lua_pushinteger of Luau takes an int: the low 32 bits of n, sign-extended
pushinteger_int32(n) ==
    LET h == n.hi % 4
    IN  IF h < 2 THEN Double(n.neg, h, n.lo, FALSE)
        ELSE IF n.lo = 0 THEN Double(~n.neg, 4 - h, 0, FALSE)
        ELSE Double(~n.neg, 3 - h, Limb - n.lo, FALSE)

\* lua_pushinteger_64(L, n): lua_pushnumber(L, static_cast<double>(n))
lua_pushinteger_64(n) == IntToDouble(n)

\* lua_tointeger_64(L, idx): static_cast<int64_t>(lua_tonumber(L, idx))
lua_tointeger_64(d) == DoubleToInt(d)

\* the int64_t values of the model: around 0, 2^30, 2^53, 2^54 and 2^55
HiInputs == {0, 1, Pow2(23) - 1, Pow2(23), Pow2(23) + 1, Pow2(24) - 1, Pow2(24),
             Pow2(25) + 1}
LoInputs == {0, 1, 2, 3, 5, 6, Limb - 2, Limb - 1}
Int64Inputs == {Int64(b, h, l) : b \in BOOLEAN, h \in HiInputs, l \in LoInputs}
\* the doubles a caller pushes itself: small ones, one with a fraction
DoubleInputs == {Double(b, 0, l, f) : b \in BOOLEAN, l \in {1, 2}, f \in BOOLEAN}

\* |n| <= 2^53
Within2Pow53(n) == n.hi < Pow2(23) \/ (n.hi = Pow2(23) /\ n.lo = 0)

\* lua_pushinteger(L, n)
PushInteger ==
    /\ num_pc = "start"
    /\ num_top' = lua_pushinteger_64(num_arg)
    /\ num_pc' = "pushed"
    /\ UNCHANGED <<num_arg, num_result, regVars, histVars, dtorVars, uvVars, load, extVars>>

\* lua_pushnumber(L, d)
PushNumber(d) ==
    /\ num_pc = "start"
    /\ num_top' = d
    /\ num_pc' = "number"
    /\ UNCHANGED <<num_arg, num_result, regVars, histVars, dtorVars, uvVars, load, extVars>>

\* lua_tointeger(L, -1)
ToInteger ==
    /\ num_pc \in {"pushed", "number"}
    /\ num_result' = lua_tointeger_64(num_top)
    /\ num_pc' = IF num_pc = "pushed" THEN "read" ELSE "truncated"
    /\ UNCHANGED <<num_arg, num_top, regVars, histVars, dtorVars, uvVars, load, extVars>>

----------------------------------------------------------------------------
(* Loading source text: luaL_loadstring, luaL_loadbuffer.  Strings are     *)
(* sequences of bytes.                                                     *)

RECURSIVE SeqsUpTo(_, _)
\* the sequences over S of length at most n
SeqsUpTo(S, n) ==
    IF n = 0 THEN {<<>>}
    ELSE LET shorter == SeqsUpTo(S, n - 1)
         IN  shorter \cup {Append(q, x) : q \in {r \in shorter : Len(r) = n - 1}, x \in S}

\* the bytes of a C string: those before the first NUL (strlen, lua_pushstring)
CStr(bytes) ==
    IF \E i \in 1..Len(bytes) : bytes[i] = 0
    THEN SubSeq(bytes, 1, (CHOOSE i \in 1..Len(bytes) :
                             bytes[i] = 0 /\ \A j \in 1..(i - 1) : bytes[j] # 0) - 1)
    ELSE bytes

\* "compilation failed"
CompilationFailed ==
    <<99, 111, 109, 112, 105, 108, 97, 116, 105, 111, 110, 32, 102, 97, 105,
      108, 101, 100>>

\* ':' and '1', the bytes of the diagnostics; '1' and '+', those of the sources
DiagnosticBytes == {58, 49}
SourceBytes == {0, 49, 43}
\* what Luau::compile may return: nothing; a 0 byte and a diagnostic, which is
\* text and so holds no NUL; or bytecode, a nonzero version byte and any bytes
CompilerOutputs ==
    {<<>>}
    \cup {<<0>> \o d : d \in SeqsUpTo(DiagnosticBytes, MaxText)}
    \cup {<<6>> \o b : b \in SeqsUpTo({0, 1}, MaxText)}
Sources == SeqsUpTo(SourceBytes, MaxText)
ChunkNames == {"chunk", "=file"}
\* luau_load returns 0, or 1 when the bytecode does not load
NativeResults == {"LUA_OK", "load failed"}

NotLoaded == [called |-> FALSE, chunkname |-> "", data |-> <<>>]
NoLoad ==
    [entry |-> "none", source |-> <<>>, compiled |-> FALSE, bytecode |-> <<>>,
     status |-> "none", pushed |-> "nothing", msg |-> <<>>, native |-> NotLoaded]

\* if (bytecode.empty() || bytecode[0] == 0)
CompileFailedInverted(bytecode) == bytecode # <<>> /\ bytecode[1] # 0
CompileFailed(bytecode) == bytecode = <<>> \/ bytecode[1] = 0

\* if (bytecode.size() > 1) lua_pushstring(L, bytecode.c_str() + 1);
\* else lua_pushstring(L, "compilation failed");
ErrorMessageFromStart(bytecode) ==
    IF Len(bytecode) > 1 THEN CStr(bytecode) ELSE CompilationFailed
ErrorMessage(bytecode) ==
    IF Len(bytecode) > 1 THEN CStr(Tail(bytecode)) ELSE CompilationFailed

\* the part the two entry points share: check the compiler's output, push the
\* message or call luau_load(L, chunkname, data, size, 0), which answers res
CompileThenLoad(entry, source, chunkname, bytecode, res) ==
    IF CompileFailed(bytecode)
    THEN [entry |-> entry, source |-> source, compiled |-> TRUE,
          bytecode |-> bytecode, status |-> "LUA_ERRSYNTAX", pushed |-> "message",
          msg |-> ErrorMessage(bytecode), native |-> NotLoaded]
    ELSE [entry |-> entry, source |-> source, compiled |-> TRUE,
          bytecode |-> bytecode, status |-> res, pushed |-> "by luau_load",
          msg |-> <<>>,
          native |-> [called |-> TRUE, chunkname |-> chunkname,
                      data |-> bytecode]]

\* the same without the check of the compiler's output
loadstring_unchecked(str, bytecode, res) ==
    [entry |-> "loadstring", source |-> CStr(str), compiled |-> TRUE,
     bytecode |-> bytecode, status |-> res, pushed |-> "by luau_load",
     msg |-> <<>>,
     native |-> [called |-> TRUE, chunkname |-> "chunk", data |-> bytecode]]

\* luaL_loadstring(L, s): compiles the strlen(s) bytes at s, loads as "chunk"
luaL_loadstring(str, bytecode, res) ==
    CompileThenLoad("loadstring", CStr(str), "chunk", bytecode, res)

\* luaL_loadbuffer(L, buff, sz, name): compiles the sz bytes at buff
luaL_loadbuffer(buff, name, bytecode, res) ==
    CompileThenLoad("loadbuffer", buff, name, bytecode, res)

\* "cannot open " and "cannot read "
CannotOpen == <<99, 97, 110, 110, 111, 116, 32, 111, 112, 101, 110, 32>>
CannotRead == <<99, 97, 110, 110, 111, 116, 32, 114, 101, 97, 100, 32>>
\* the file names of the model and their bytes
FileNameBytes == [p |-> <<112>>, q |-> <<113>>]
Paths == DOMAIN FileNameBytes
\* lua_pushfstring(L, "... %s", filename)
lua_pushfstring(fmt, filename) == fmt \o FileNameBytes[filename]

\* what fopen, ftell and fread answer for a path: fopen fails; or ftell fails
\* (-1, a stream that cannot be sought); or ftell gives the size and fread
\* delivers that many bytes or fewer
FileStates ==
    {[opens |-> FALSE, size |-> 0, data |-> <<>>],
     [opens |-> TRUE, size |-> -1, data |-> <<>>]}
    \cup UNION {{[opens |-> TRUE, size |-> n, data |-> d] : n \in Len(d)..MaxText} :
                d \in Sources}
\* a file that holds the bytes and is read in full
ReadableFile(bytes) == [opens |-> TRUE, size |-> Len(bytes), data |-> bytes]
NoFile == [path |-> "", opens |-> FALSE, size |-> 0, data |-> <<>>, calls |-> <<>>]

\* return LUA_ERRFILE with the message pushed
FileError(msg) ==
    [entry |-> "loadfile", source |-> <<>>, compiled |-> FALSE, bytecode |-> <<>>,
     status |-> "LUA_ERRFILE", pushed |-> "message", msg |-> msg,
     native |-> NotLoaded]
\* std::string content(size, '\0') with size = -1, that is SIZE_MAX, throws
LengthError ==
    [entry |-> "loadfile", source |-> <<>>, compiled |-> FALSE, bytecode |-> <<>>,
     status |-> "std::length_error", pushed |-> "nothing", msg |-> <<>>,
     native |-> NotLoaded]

\* luaL_loadfile(L, filename): f is what the file system answers for filename
luaL_loadfile(filename, f, bytecode, res) ==
    IF ~f.opens THEN FileError(lua_pushfstring(CannotOpen, filename))
    ELSE IF f.size < 0 THEN LengthError
    ELSE IF Len(f.data) # f.size
    THEN FileError(lua_pushfstring(CannotRead, filename))
    ELSE [luaL_loadbuffer(f.data, filename, bytecode, res) EXCEPT !.entry = "loadfile"]

\* the calls luaL_loadfile makes on the FILE and after, in their order, up
\* to its return or to the exception that leaves it
loadfile_calls(f) ==
    IF ~f.opens THEN <<"fopen">>
    ELSE IF f.size < 0 THEN <<"fopen", "fseek", "ftell", "fseek", "std::string">>
    ELSE <<"fopen", "fseek", "ftell", "fseek", "std::string", "fread", "fclose">>
         \o (IF Len(f.data) # f.size THEN <<>> ELSE <<"luaL_loadbuffer">>)

\* bytecode is what Luau::compile returns for the source, res what luau_load
\* returns if it is called; the caller has taken the previous load's result
LoadString(str, bytecode, res) ==
    /\ load = NoLoad
    /\ load' = luaL_loadstring(str, bytecode, res)
    /\ UNCHANGED <<regVars, histVars, dtorVars, uvVars, numVars, extVars>>

LoadBuffer(buff, name, bytecode, res) ==
    /\ load = NoLoad
    /\ load' = luaL_loadbuffer(buff, name, bytecode, res)
    /\ UNCHANGED <<regVars, histVars, dtorVars, uvVars, numVars, extVars>>

LoadFile(filename, f, bytecode, res) ==
    /\ load = NoLoad
    /\ load' = luaL_loadfile(filename, f, bytecode, res)
    /\ file' = [path |-> filename, opens |-> f.opens, size |-> f.size,
                data |-> f.data, calls |-> loadfile_calls(f)]
    /\ UNCHANGED <<regVars, histVars, dtorVars, uvVars, numVars, stkVars, dbgVars,
                   hookVars, ioVars>>

\* the caller takes the closure or the message off the stack
TakeLoadResult ==
    /\ load # NoLoad
    /\ load' = NoLoad
    /\ file' = NoFile
    /\ UNCHANGED <<regVars, histVars, dtorVars, uvVars, numVars, stkVars, dbgVars,
                   hookVars, ioVars>>

----------------------------------------------------------------------------
(* Stack manipulation: lua_rotate, lua_copy *)

\* lua_insert(L, idx): moves the top element into idx, shifting up the rest
lua_insert(vm, idx) ==
    LET i == lua_absindex(vm, idx)
        n == Len(vm.stack)
    IN  [vm EXCEPT !.stack = SubSeq(@, 1, i - 1) \o <<@[n]>> \o SubSeq(@, i, n - 1)]
\* lua_replace(L, idx): stores the top element at idx, then pops it; idx is
\* resolved against the stack that still holds the element
lua_replace(vm, idx) ==
    LET i == lua_absindex(vm, idx)
    IN  lua_pop([vm EXCEPT !.stack[i] = Top(vm)], 1)

RECURSIVE rotate_up(_, _, _, _)
\* for (int i = 0; i < n; i++) { lua_pushvalue(L, idx); lua_remove(L, idx);
\*                               lua_insert(L, t); }
rotate_up(vm, idx, t, n) ==
    IF n = 0 THEN vm
    ELSE rotate_up(lua_insert(lua_remove(lua_pushvalue(vm, idx), idx), t),
                   idx, t, n - 1)

RECURSIVE rotate_down(_, _, _, _)
\* for (int i = 0; i < n; i++) { lua_pushvalue(L, t); lua_remove(L, t);
\*                               lua_insert(L, idx); }
rotate_down(vm, idx, t, n) ==
    IF n = 0 THEN vm
    ELSE rotate_down(lua_insert(lua_remove(lua_pushvalue(vm, t), t), idx),
                     idx, t, n - 1)

\* the same with the n < 0 branch left out
rotate_positive_only(vm, idx0, n) ==
    LET t == Len(vm.stack)
        idx == lua_absindex(vm, idx0)
    IN  IF n > 0 THEN rotate_up(vm, idx, t, n) ELSE vm

lua_rotate(vm, idx0, n) ==
    LET t == Len(vm.stack)
        idx == lua_absindex(vm, idx0)
    IN  IF n > 0 THEN rotate_up(vm, idx, t, n)
        ELSE IF n < 0 THEN rotate_down(vm, idx, t, -n)
        ELSE vm

lua_copy(vm, fromidx, toidx) == lua_replace(lua_pushvalue(vm, fromidx), toidx)

\* the values on the stacks of the model, the heights of the stacks, the
\* indices and the rotation counts the callers pass
StackValues == {Nil, Str(1), Str(2)}
StackHeight == MaxStack + 1
Stacks == SeqsUpTo(StackValues, StackHeight)
ShimIndices == (1..StackHeight) \cup {-i : i \in 1..StackHeight}
RotateCounts == (-StackHeight)..StackHeight
NoStackCall == [op |-> "none", idx |-> 0, n |-> 0, before |-> <<>>]

\* lua_rotate(L, idx, n) with a valid idx, on a stack as the caller left it
\* (any of Stacks: the initial states draw it)
Rotate(idx, n) ==
    /\ st_last = NoStackCall
    /\ ValidIndex(L, idx)
    /\ L' = lua_rotate(L, idx, n)
    /\ st_last' = [op |-> "rotate", idx |-> idx, n |-> n, before |-> L.stack]
    /\ UNCHANGED <<mt_last, uv_shadow, uv_last, regVars, histVars, dtorVars,
                   numVars, load, file, dbgVars, hookVars, ioVars>>

\* lua_rotate(L, idx, -n), right after lua_rotate(L, idx, n)
RotateBack ==
    /\ st_last.op = "rotate"
    /\ L' = lua_rotate(L, st_last.idx, -st_last.n)
    /\ st_last' = [st_last EXCEPT !.op = "rotate back"]
    /\ UNCHANGED <<mt_last, uv_shadow, uv_last, regVars, histVars, dtorVars,
                   numVars, load, file, dbgVars, hookVars, ioVars>>

\* lua_copy(L, fromidx, toidx) with valid indices, on a stack as the caller
\* left it
Copy(fromidx, toidx) ==
    /\ st_last = NoStackCall
    /\ ValidIndex(L, fromidx)
    /\ ValidIndex(L, toidx)
    /\ L' = lua_copy(L, fromidx, toidx)
    /\ st_last' = [op |-> "copy", idx |-> fromidx, n |-> toidx, before |-> L.stack]
    /\ UNCHANGED <<mt_last, uv_shadow, uv_last, regVars, histVars, dtorVars,
                   numVars, load, file, dbgVars, hookVars, ioVars>>

----------------------------------------------------------------------------
(* Metatable metadata: store_on_metatable_if_absent *)

LUA_REGISTRYINDEX == -10000
Bool(b) == [t |-> "bool", v |-> b]

\* lua_rawget(L, idx): the key on top is replaced by the table's value for it
lua_rawget(vm, idx) ==
    Push(lua_pop(vm, 1), RawGet(vm.tables[At(vm, idx).v], Top(vm)))
\* lua_rawset(L, idx): t[k] = v for the value on top and the key below it;
\* both are popped
lua_rawset(vm, idx) ==
    lua_pop([vm EXCEPT !.tables[At(vm, idx).v] =
                           RawSet(@, vm.stack[Len(vm.stack) - 1], Top(vm))], 2)

\* the same without the check for an existing value
store_on_metatable_always(vm, metatable_index, key, value) ==
    LET idx == IF metatable_index < 0 /\ metatable_index > LUA_REGISTRYINDEX
               THEN Len(vm.stack) + metatable_index + 1
               ELSE metatable_index
    IN  [vm |-> lua_rawset(Push(Push(vm, key), value), idx), result |-> TRUE]

\* store_on_metatable_if_absent(L, metatable_index, key, push_value), where
\* push_value pushes value: the state afterwards and the result
store_on_metatable_if_absent(vm, metatable_index, key, value) ==
    LET idx == IF metatable_index < 0 /\ metatable_index > LUA_REGISTRYINDEX
               THEN Len(vm.stack) + metatable_index + 1
               ELSE metatable_index
        v1 == lua_rawget(Push(vm, key), idx)
    IN  IF Top(v1) # Nil
        THEN [vm |-> lua_pop(v1, 1), result |-> FALSE]
        ELSE [vm |-> lua_rawset(Push(Push(lua_pop(v1, 1), key), value), idx),
              result |-> TRUE]

\* the metadata keys, the values push_value pushes (false is a value too),
\* the metatables and the stacks that hold the metatable
MetaKeys == {Str(1), Str(2)}
MetaValues == {Nil, Bool(0), Str(3)}
MetaTables ==
    UNION {[ks -> MetaValues \ {Nil}] : ks \in SUBSET MetaKeys}
MetaStacks ==
    {q \in SeqsUpTo({Nil, Str(1), Tbl(1)}, StackHeight) :
        \E i \in 1..Len(q) : q[i] = Tbl(1)}
NoMetaCall ==
    [op |-> "none", idx |-> 0, key |-> Nil, value |-> Nil,
     before |-> [stack |-> <<>>, env |-> <<>>, tables |-> <<>>], result |-> FALSE]

StoreOnMetatableIfAbsent(metatable_index, key, value) ==
    /\ ValidIndex(L, metatable_index)
    /\ At(L, metatable_index).t = "tbl"
    /\ LET r == store_on_metatable_if_absent(L, metatable_index, key, value)
       IN  /\ L' = r.vm
           /\ mt_last' = [op |-> "store", idx |-> metatable_index, key |-> key,
                          value |-> value, before |-> L, result |-> r.result]
    /\ UNCHANGED <<st_last, uv_shadow, uv_last, regVars, histVars, dtorVars,
                   numVars, load, file, dbgVars, hookVars, ioVars>>

----------------------------------------------------------------------------
(* Debug frames: lua_getstack, luau_getinfo_3arg, luau_getlocal_3arg *)

\* the levels the callers ask for
Levels == (-1)..MaxDepth
NoCapture == [level |-> 0, in_range |-> FALSE, result |-> -1]
NoQuery == [fn |-> "none", level |-> 0]

\* if (level < 0 || level >= depth)
LevelInvalidAboveDepth(level, d) == level < 0 \/ level > d
LevelInvalid(level, d) == level < 0 \/ level >= d

\* a thread_local variable is one variable per thread: storing into it on
\* thread t changes t's copy
StoreLevelShared(levels, t, level) == [u \in Threads |-> level]
StoreLevelFirst(levels, t, level) ==
    IF levels[t] = 0 THEN [levels EXCEPT ![t] = level] ELSE levels
StoreLevel(levels, t, level) == [levels EXCEPT ![t] = level]

\* lua_getstack(L, level, ar) on thread t, where lua_stackdepth(L) is d: the
\* result and the thread-local levels afterwards
lua_getstack(levels, t, level, d) ==
    IF LevelInvalid(level, d)
    THEN [result |-> 0, levels |-> levels]
    ELSE [result |-> 1, levels |-> StoreLevel(levels, t, level)]

\* the same, asking for the running function whatever was captured
getinfo_level_zero(levels, t) == [fn |-> "lua_getinfo", level |-> 0]
\* luau_getinfo_3arg(L, what, ar) on thread t: the call made to lua_getinfo
luau_getinfo_3arg(levels, t) == [fn |-> "lua_getinfo", level |-> levels[t]]
\* luau_getlocal_3arg(L, ar, n) on thread t: the call made to lua_getlocal
luau_getlocal_3arg(levels, t) == [fn |-> "lua_getlocal", level |-> levels[t]]

GetStack(t, level) ==
    LET r == lua_getstack(s_current_debug_level, t, level, depth[t])
    IN  /\ s_current_debug_level' = r.levels
        /\ dbg_ret' = [dbg_ret EXCEPT ![t] =
                          [level |-> level,
                           in_range |-> level >= 0 /\ level < depth[t],
                           result |-> r.result]]
        /\ queried' = [queried EXCEPT ![t] = NoQuery]
        /\ UNCHANGED <<depth, ar, ar_hist, regVars, histVars, dtorVars, uvVars,
                       numVars, load, file, stkVars, hookVars, ioVars>>

GetInfo(t) ==
    /\ queried' = [queried EXCEPT ![t] = luau_getinfo_3arg(s_current_debug_level, t)]
    /\ UNCHANGED <<s_current_debug_level, depth, dbg_ret, ar, ar_hist, regVars,
                   histVars, dtorVars, uvVars, numVars, load, file, stkVars,
                   hookVars, ioVars>>

GetLocal(t) ==
    /\ queried' = [queried EXCEPT ![t] = luau_getlocal_3arg(s_current_debug_level, t)]
    /\ UNCHANGED <<s_current_debug_level, depth, dbg_ret, ar, ar_hist, regVars,
                   histVars, dtorVars, uvVars, numVars, load, file, stkVars,
                   hookVars, ioVars>>

\* the state the thread drives calls a function
EnterFunction(t) ==
    /\ depth[t] < MaxDepth
    /\ depth' = [depth EXCEPT ![t] = @ + 1]
    /\ UNCHANGED <<s_current_debug_level, dbg_ret, queried, ar, ar_hist, regVars,
                   histVars, dtorVars, uvVars, numVars, load, file, stkVars,
                   hookVars, ioVars>>

\* a function of the state the thread drives returns
LeaveFunction(t) ==
    /\ depth[t] > 0
    /\ depth' = [depth EXCEPT ![t] = @ - 1]
    /\ UNCHANGED <<s_current_debug_level, dbg_ret, queried, ar, ar_hist, regVars,
                   histVars, dtorVars, uvVars, numVars, load, file, stkVars,
                   hookVars, ioVars>>

\* ---- the same calls, with the lua_Debug the caller passes

\* the frame handles (lua_Debug objects) of the callers, and the thread that
\* passes them
FrameIds == {1, 2}
FrameThreads == {"t1"}
\* a lua_Debug the shims have not written: the caller's own values
ArUnset ==
    [name |-> "unset", what |-> "unset", source |-> "unset",
     short_src |-> "unset", linedefined |-> 0, currentline |-> 0]
\* ar->name = nullptr; ... ar->currentline = -1;
ArDefaults ==
    [name |-> "nullptr", what |-> "nullptr", source |-> "nullptr",
     short_src |-> "nullptr", linedefined |-> -1, currentline |-> -1]
NoFrameHist ==
    [captured |-> [h \in FrameIds |-> -1], last_ok |-> -1, passed |-> 0]

\* the same, writing the defaults whatever the level
getstack_ar_always(a, level, d) == ArDefaults
\* lua_getstack(L, level, ar): the lua_Debug a afterwards
getstack_ar(a, level, d) == IF LevelInvalid(level, d) THEN a ELSE ArDefaults

\* capture_frame: lua_getstack(L, level, &ar[h]) on thread t
capture_frame(t, level, h) ==
    LET r == lua_getstack(s_current_debug_level, t, level, depth[t])
    IN  /\ s_current_debug_level' = r.levels
        /\ ar' = [ar EXCEPT ![h] = getstack_ar(@, level, depth[t])]
        /\ dbg_ret' = [dbg_ret EXCEPT ![t] =
                          [level |-> level,
                           in_range |-> level >= 0 /\ level < depth[t],
                           result |-> r.result]]
        /\ queried' = [queried EXCEPT ![t] = NoQuery]
        /\ ar_hist' = IF r.result = 1
                      THEN [captured |-> [ar_hist.captured EXCEPT ![h] = level],
                            last_ok |-> level, passed |-> 0]
                      ELSE [ar_hist EXCEPT !.passed = 0]
        /\ UNCHANGED <<depth, regVars, histVars, dtorVars, uvVars, numVars, load,
                       file, stkVars, hookVars, ioVars>>

\* query_frame: luau_getinfo_3arg(L, what, &ar[h]) on thread t; what the
\* native lua_getinfo then writes into the lua_Debug is the VM's business
query_frame(t, h) ==
    /\ queried' = [queried EXCEPT ![t] = luau_getinfo_3arg(s_current_debug_level, t)]
    /\ ar_hist' = [ar_hist EXCEPT !.passed = h]
    /\ UNCHANGED <<s_current_debug_level, depth, dbg_ret, ar, regVars, histVars,
                   dtorVars, uvVars, numVars, load, file, stkVars, hookVars, ioVars>>

\* get_local: luau_getlocal_3arg(L, &ar[h], n) on thread t
get_local(t, h) ==
    /\ queried' = [queried EXCEPT ![t] = luau_getlocal_3arg(s_current_debug_level, t)]
    /\ ar_hist' = [ar_hist EXCEPT !.passed = h]
    /\ UNCHANGED <<s_current_debug_level, depth, dbg_ret, ar, regVars, histVars,
                   dtorVars, uvVars, numVars, load, file, stkVars, hookVars, ioVars>>

----------------------------------------------------------------------------
(* Hooks: lua_sethook, lua_gethook, lua_gethookmask, lua_gethookcount *)

\* the hook functions callers pass, the masks (any set of LUA_MASKCALL,
\* LUA_MASKRET, LUA_MASKLINE, LUA_MASKCOUNT) and the counts
HookFns == {"null", "f"}
HookMasks == 0..15
HookCounts == {0, 1, 1000}
NoHook == [fn |-> "null", mask |-> 0, count |-> 0]

\* the same, handing the hook to the VM
sethook_installing(h, fn, mask, count) ==
    [hook |-> [fn |-> fn, mask |-> mask, count |-> count], result |-> 0]
\* lua_sethook(L, hook, mask, count): the VM's hook afterwards and the result
lua_sethook(h, fn, mask, count) == [hook |-> h, result |-> 0]
lua_gethook(h) == "null"
lua_gethookmask(h) == 0
lua_gethookcount(h) == 0

NoHookCall == [fn |-> "none", value |-> 0, asked |-> NoHook]

SetHook(fn, mask, count) ==
    LET r == lua_sethook(hook, fn, mask, count)
    IN  /\ hook' = r.hook
        /\ hook_ret' = [fn |-> "lua_sethook", value |-> r.result,
                        asked |-> [fn |-> fn, mask |-> mask, count |-> count]]
        /\ UNCHANGED <<regVars, histVars, dtorVars, uvVars, numVars, load, file,
                       stkVars, dbgVars, ioVars>>

GetHook ==
    /\ hook_ret' = [hook_ret EXCEPT !.fn = "lua_gethook", !.value = lua_gethook(hook)]
    /\ UNCHANGED <<hook, regVars, histVars, dtorVars, uvVars, numVars, load, file,
                   stkVars, dbgVars, ioVars>>

GetHookMask ==
    /\ hook_ret' = [hook_ret EXCEPT !.fn = "lua_gethookmask",
                                    !.value = lua_gethookmask(hook)]
    /\ UNCHANGED <<hook, regVars, histVars, dtorVars, uvVars, numVars, load, file,
                   stkVars, dbgVars, ioVars>>

GetHookCount ==
    /\ hook_ret' = [hook_ret EXCEPT !.fn = "lua_gethookcount",
                                    !.value = lua_gethookcount(hook)]
    /\ UNCHANGED <<hook, regVars, histVars, dtorVars, uvVars, numVars, load, file,
                   stkVars, dbgVars, ioVars>>

----------------------------------------------------------------------------
(* The io library: io.open, io.lines, file:write, file:read("*a"),          *)
(* file:lines, file:close and the handle's destructor, on one file.  A     *)
(* script of the model holds one open handle at a time.                    *)

\* NUL, 'a' and newline, the bytes of the strings scripts write
IoBytes == {0, 97, 10}
IoStrings == SeqsUpTo(IoBytes, MaxText)
\* the strings written where lines are read: a line, its newline, both
IoLineStrings == {<<97>>, <<10>>, <<97, 10>>}
IoModes == {"r", "w"}
HandleIds == {1, 2}
Absent == [exists |-> FALSE, bytes |-> <<>>]
\* a LuaFileHandle: is_open, the flags parsed from the mode, its std::fstream
\* (whether it is open, its position, its failbit), whether the userdata is
\* alive ("none": not made, "live", "dead": finalized), whether io.lines made
\* it (the script then holds the iterator only); and, as history, the number
\* of file.close() calls and whether the stream was used while not open
FreshHandle ==
    [is_open |-> FALSE, has_read |-> FALSE, has_write |-> FALSE, pos |-> 0,
     fail |-> FALSE, stream |-> FALSE, life |-> "none", lines |-> FALSE,
     closes |-> 0, misuse |-> FALSE]
NoIoCall == [kind |-> "none", h |-> 0, bytes |-> <<>>]
NoIoHist == [stage |-> "none", s |-> <<>>]
NoIoLast == [op |-> "none", h |-> 0, was_open |-> FALSE]

\* any operation on h->file other than close()
StreamUsed(hd) == [hd EXCEPT !.misuse = @ \/ ~hd.stream]
\* h->file.close()
fstream_close(hd) ==
    [hd EXCEPT !.stream = FALSE, !.closes = @ + 1, !.misuse = @ \/ ~hd.stream]

\* handle->file.open(wide_filename, open_mode): "w" is out | trunc and makes
\* the file, "r" is in and needs it
FileOpens(d, mode) == mode = "w" \/ d.exists
DiskAfterOpen(d, mode) ==
    IF mode = "w" THEN [exists |-> TRUE, bytes |-> <<>>] ELSE d

\* lua_io_open: the handle made, the file afterwards, the values returned
lua_io_open(d, h, mode) ==
    IF ~FileOpens(d, mode)
    THEN [handle |-> FreshHandle, disk |-> d,
          ret |-> [kind |-> "nil, cannot open file", h |-> 0, bytes |-> <<>>]]
    ELSE [handle |-> [FreshHandle EXCEPT !.is_open = TRUE, !.has_read = mode = "r",
                                         !.has_write = mode = "w", !.stream = TRUE,
                                         !.life = "live"],
          disk |-> DiskAfterOpen(d, mode),
          ret |-> [kind |-> "handle", h |-> h, bytes |-> <<>>]]

\* h->file.write(str, len) at the handle's position
WriteAt(bytes, pos, str) ==
    SubSeq(bytes, 1, pos) \o str \o SubSeq(bytes, pos + Len(str) + 1, Len(bytes))

\* file:write(str)
file_write(d, hd, h, str) ==
    IF ~hd.is_open
    THEN [handle |-> hd, disk |-> d,
          ret |-> [kind |-> "nil, file is closed", h |-> 0, bytes |-> <<>>]]
    ELSE IF hd.has_write /\ ~hd.fail
    THEN [handle |-> [StreamUsed(hd) EXCEPT !.pos = @ + Len(str)],
          disk |-> [d EXCEPT !.bytes = WriteAt(@, hd.pos, str)],
          ret |-> [kind |-> "handle", h |-> h, bytes |-> <<>>]]
    ELSE [handle |-> [StreamUsed(hd) EXCEPT !.fail = TRUE], disk |-> d,
          ret |-> [kind |-> "handle", h |-> h, bytes |-> <<>>]]

\* buffer << h->file.rdbuf(): the bytes from the position to the end
RestOfFile(d, hd) ==
    IF hd.has_read THEN SubSeq(d.bytes, hd.pos + 1, Len(d.bytes)) ELSE <<>>

\* file:read("*a"): lua_pushstring(L, buffer.str().c_str())
file_read_all(d, hd) ==
    IF ~hd.is_open
    THEN [handle |-> hd, ret |-> [kind |-> "nil", h |-> 0, bytes |-> <<>>]]
    ELSE [handle |-> [StreamUsed(hd) EXCEPT
                          !.pos = IF hd.has_read THEN Len(d.bytes) ELSE @],
          ret |-> [kind |-> "string", h |-> 0, bytes |-> CStr(RestOfFile(d, hd))]]

\* the same, calling h->file.close() whatever is_open says
file_close_always(hd) ==
    [handle |-> [fstream_close(hd) EXCEPT !.is_open = FALSE],
     ret |-> [kind |-> "true", h |-> 0, bytes |-> <<>>]]
\* file:close()
file_close(hd) ==
    [handle |-> IF hd.is_open THEN [fstream_close(hd) EXCEPT !.is_open = FALSE]
                ELSE hd,
     ret |-> [kind |-> "true", h |-> 0, bytes |-> <<>>]]

\* std::getline(h->file, line): whether it succeeds, the line, the handle
\* afterwards.  It fails (and sets the failbit) on a stream that cannot be
\* read, has failed, or has nothing left; a last line without a newline is
\* a line
getline(d, hd) ==
    IF ~hd.has_read \/ hd.fail \/ hd.pos >= Len(d.bytes)
    THEN [ok |-> FALSE, line |-> <<>>, handle |-> [StreamUsed(hd) EXCEPT !.fail = TRUE]]
    ELSE LET rest == SubSeq(d.bytes, hd.pos + 1, Len(d.bytes))
             nls == {i \in 1..Len(rest) : rest[i] = 10}
             nl == IF nls = {} THEN 0
                   ELSE CHOOSE i \in nls : \A j \in nls : i <= j
         IN  [ok |-> TRUE,
              line |-> IF nl = 0 THEN rest ELSE SubSeq(rest, 1, nl - 1),
              handle |-> [StreamUsed(hd) EXCEPT
                              !.pos = IF nl = 0 THEN Len(d.bytes) ELSE hd.pos + nl]]

\* the iterator file:lines() returns, called once
file_lines_next(d, hd) ==
    IF ~hd.is_open
    THEN [handle |-> hd, ret |-> [kind |-> "nil", h |-> 0, bytes |-> <<>>]]
    ELSE LET g == getline(d, hd)
         IN  IF g.ok
             THEN [handle |-> g.handle,
                   ret |-> [kind |-> "string", h |-> 0, bytes |-> CStr(g.line)]]
             ELSE [handle |-> g.handle,
                   ret |-> [kind |-> "nil", h |-> 0, bytes |-> <<>>]]

\* lua_io_lines: io.open(filename, "r"), an error if that returned nil, else
\* the iterator with the handle as its upvalue
lua_io_lines(d, h) ==
    LET r == lua_io_open(d, h, "r")
    IN  IF r.ret.kind # "handle"
        THEN [handle |-> r.handle, disk |-> r.disk,
              ret |-> [kind |-> "error: cannot open file", h |-> 0, bytes |-> <<>>]]
        ELSE [handle |-> [r.handle EXCEPT !.lines = TRUE], disk |-> r.disk,
              ret |-> [kind |-> "function", h |-> h, bytes |-> <<>>]]

\* the same, leaving the file open at the end
io_lines_next_open(d, hd) == file_lines_next(d, hd)
\* the iterator io.lines(filename) returns, called once
io_lines_next(d, hd) ==
    IF ~hd.is_open
    THEN [handle |-> hd, ret |-> [kind |-> "nil", h |-> 0, bytes |-> <<>>]]
    ELSE LET g == getline(d, hd)
         IN  IF g.ok
             THEN [handle |-> g.handle,
                   ret |-> [kind |-> "string", h |-> 0, bytes |-> CStr(g.line)]]
             ELSE [handle |-> [fstream_close(g.handle) EXCEPT !.is_open = FALSE],
                   ret |-> [kind |-> "nil", h |-> 0, bytes |-> <<>>]]

\* the destructor given to lua_newuserdatadtor: h->file.close() if is_open,
\* then h->~LuaFileHandle(), which leaves nothing of the handle
finalizer(hd) ==
    LET closed == IF hd.is_open THEN fstream_close(hd) ELSE hd
    IN  [FreshHandle EXCEPT !.life = "dead", !.closes = closed.closes,
                            !.misuse = closed.misuse]

\* the script holds the handle h
Held(h) == handles[h].life = "live" /\ ~handles[h].lines

\* io.open(path, mode), the new handle being h
IoOpen(h, mode) ==
    LET r == lua_io_open(disk, h, mode)
    IN  /\ \A g \in HandleIds : ~handles[g].is_open
        /\ handles[h].life # "live"
        /\ handles' = [handles EXCEPT ![h] = r.handle]
        /\ disk' = r.disk
        /\ io_ret' = r.ret
        /\ io_hist' = IF r.ret.kind # "handle" THEN NoIoHist
                      ELSE IF mode = "w" THEN [stage |-> "opened w", s |-> <<>>]
                      ELSE IF io_hist.stage = "closed"
                      THEN [io_hist EXCEPT !.stage = "opened r"]
                      ELSE NoIoHist
        /\ io_last' = [op |-> "io.open", h |-> h, was_open |-> FALSE]
        /\ UNCHANGED <<regVars, histVars, dtorVars, uvVars, numVars, load, file,
                       stkVars, dbgVars, hookVars>>

\* h:write(str); the file stays within MaxText bytes
FileWrite(h, str) ==
    LET r == file_write(disk, handles[h], h, str)
    IN  /\ Held(h)
        /\ Len(r.disk.bytes) <= MaxText
        /\ handles' = [handles EXCEPT ![h] = r.handle]
        /\ disk' = r.disk
        /\ io_ret' = r.ret
        /\ io_hist' = IF io_hist.stage = "opened w" /\ handles[h].is_open
                      THEN [stage |-> "written", s |-> str]
                      ELSE NoIoHist
        /\ io_last' = [op |-> "write", h |-> h, was_open |-> handles[h].is_open]
        /\ UNCHANGED <<regVars, histVars, dtorVars, uvVars, numVars, load, file,
                       stkVars, dbgVars, hookVars>>

\* h:read("*a")
FileReadAll(h) ==
    LET r == file_read_all(disk, handles[h])
    IN  /\ Held(h)
        /\ handles' = [handles EXCEPT ![h] = r.handle]
        /\ io_ret' = r.ret
        /\ io_hist' = IF io_hist.stage = "opened r" /\ handles[h].is_open
                      THEN [io_hist EXCEPT !.stage = "read"]
                      ELSE NoIoHist
        /\ io_last' = [op |-> "read", h |-> h, was_open |-> handles[h].is_open]
        /\ UNCHANGED <<disk, regVars, histVars, dtorVars, uvVars, numVars, load,
                       file, stkVars, dbgVars, hookVars>>

\* h:close()
FileClose(h) ==
    LET r == file_close(handles[h])
    IN  /\ Held(h)
        /\ handles' = [handles EXCEPT ![h] = r.handle]
        /\ io_ret' = r.ret
        /\ io_hist' = IF io_hist.stage = "written" /\ handles[h].is_open
                      THEN [io_hist EXCEPT !.stage = "closed"]
                      ELSE NoIoHist
        /\ io_last' = [op |-> "close", h |-> h, was_open |-> handles[h].is_open]
        /\ UNCHANGED <<disk, regVars, histVars, dtorVars, uvVars, numVars, load,
                       file, stkVars, dbgVars, hookVars>>

\* one call of the iterator h:lines() returned
FileLinesNext(h) ==
    LET r == file_lines_next(disk, handles[h])
    IN  /\ Held(h)
        /\ handles' = [handles EXCEPT ![h] = r.handle]
        /\ io_ret' = r.ret
        /\ io_hist' = NoIoHist
        /\ io_last' = [op |-> "lines next", h |-> h, was_open |-> handles[h].is_open]
        /\ UNCHANGED <<disk, regVars, histVars, dtorVars, uvVars, numVars, load,
                       file, stkVars, dbgVars, hookVars>>

\* io.lines(path), the handle it makes being h
IoLines(h) ==
    LET r == lua_io_lines(disk, h)
    IN  /\ \A g \in HandleIds : ~handles[g].is_open
        /\ handles[h].life # "live"
        /\ handles' = [handles EXCEPT ![h] = r.handle]
        /\ disk' = r.disk
        /\ io_ret' = r.ret
        /\ io_hist' = NoIoHist
        /\ io_last' = [op |-> "io.lines", h |-> h, was_open |-> FALSE]
        /\ UNCHANGED <<regVars, histVars, dtorVars, uvVars, numVars, load, file,
                       stkVars, dbgVars, hookVars>>

\* one call of the iterator io.lines(path) returned, its handle being h
IoLinesNext(h) ==
    LET r == io_lines_next(disk, handles[h])
    IN  /\ handles[h].life = "live"
        /\ handles[h].lines
        /\ handles' = [handles EXCEPT ![h] = r.handle]
        /\ io_ret' = r.ret
        /\ io_hist' = NoIoHist
        /\ io_last' = [op |-> "io.lines next", h |-> h,
                       was_open |-> handles[h].is_open]
        /\ UNCHANGED <<disk, regVars, histVars, dtorVars, uvVars, numVars, load,
                       file, stkVars, dbgVars, hookVars>>

\* the collector finalizes the userdata of h
Finalize(h) ==
    /\ handles[h].life = "live"
    /\ handles' = [handles EXCEPT ![h] = finalizer(@)]
    /\ io_ret' = NoIoCall
    /\ io_hist' = NoIoHist
    /\ io_last' = [op |-> "finalize", h |-> h, was_open |-> handles[h].is_open]
    /\ UNCHANGED <<disk, regVars, histVars, dtorVars, uvVars, numVars, load,
                   file, stkVars, dbgVars, hookVars>>

----------------------------------------------------------------------------
(* Initial states *)

NoAlloc == [kind |-> "none", tag |-> 0]

InitThreads ==
    /\ tag_mutex = NoThread
    /\ pc = [t \in Threads |-> "idle"]
    /\ metatable_name = [t \in Threads |-> 0]
    /\ ret = [t \in Threads |-> 0]
    /\ h_full = [t \in Threads |-> FALSE]
    /\ h_new = [t \in Threads |-> FALSE]
    /\ h_prev = [t \in Threads |-> 0]

\* static int next_tag = 1; the map empty; then p registrations
InitRegistry(p) ==
    /\ tag_map = [n \in OlderNames(p) |-> -n]
    /\ next_tag = p + 1
    /\ passed = OlderNames(p)
    /\ returned = [n \in CallNames |-> IF n \in OlderNames(p) THEN {-n} ELSE {}]

InitDtor ==
    /\ udatagc = <<>>
    /\ dtor_after_get = [t \in Threads |-> {}]
    /\ alloc = NoAlloc

\* an empty stack, no userdata, no table
InitUV ==
    /\ L = [stack |-> <<>>, env |-> <<>>, tables |-> <<>>]
    /\ uv_shadow = [u \in UdIds |-> [n \in UVIndices |-> Nil]]
    /\ uv_last = NoCall

\* nothing pushed yet
InitNum ==
    /\ num_pc = "start"
    /\ num_arg = Int64(FALSE, 0, 0)
    /\ num_top = Double(FALSE, 0, 0, FALSE)
    /\ num_result = Int64(FALSE, 0, 0)

\* nothing loaded yet
InitLoad ==
    /\ load = NoLoad
    /\ file = NoFile

\* no stack shim called yet
InitStack ==
    /\ st_last = NoStackCall
    /\ mt_last = NoMetaCall

\* thread_local int s_current_debug_level = 0; the states are at the base level
InitDbg ==
    /\ s_current_debug_level = [t \in Threads |-> 0]
    /\ depth = [t \in Threads |-> 0]
    /\ dbg_ret = [t \in Threads |-> NoCapture]
    /\ queried = [t \in Threads |-> NoQuery]
    /\ ar = [h \in FrameIds |-> ArUnset]
    /\ ar_hist = NoFrameHist

\* the VM holds no hook
InitHook ==
    /\ hook = NoHook
    /\ hook_ret = NoHookCall

\* the file does not exist, no handle has been made
InitIo ==
    /\ disk = Absent
    /\ handles = [h \in HandleIds |-> FreshHandle]
    /\ io_ret = NoIoCall
    /\ io_hist = NoIoHist
    /\ io_last = NoIoLast

InitShims ==
    /\ InitStack
    /\ InitDbg
    /\ InitHook
    /\ InitIo

InitTag ==
    /\ InitThreads
    /\ \E p \in Prefills : InitRegistry(p)
    /\ InitDtor
    /\ InitUV
    /\ InitNum
    /\ InitLoad
    /\ InitShims

NextTag ==
    \E t \in Threads :
        \/ \E name \in CallNames : Call(t, name)
        \/ Lock(t)
        \/ Find(t)
        \/ Assign(t)
        \/ Done(t)

SpecTag == InitTag /\ [][NextTag]_vars

\* a fresh process; the threads use two names
InitDtorSpec ==
    /\ InitThreads
    /\ InitRegistry(0)
    /\ InitDtor
    /\ InitUV
    /\ InitNum
    /\ InitLoad
    /\ InitShims

DtorNames == {1, 2}

NextDtor ==
    \E t \in Threads :
        \/ \E name \in DtorNames : Call(t, name)
        \/ Lock(t)
        \/ Find(t)
        \/ Assign(t)
        \/ Done(t)
        \/ \E dtor \in Dtors : RegisterAfterGet(t, dtor)
        \/ \E tg \in TagInputs, dtor \in Dtors : RegisterDestructor(t, tg, dtor)
        \/ \E tg \in TagInputs : NewUserdataTagged(t, tg)

SpecDtor == InitDtorSpec /\ [][NextDtor]_vars

InitUVSpec ==
    /\ InitThreads
    /\ InitRegistry(0)
    /\ InitDtor
    /\ InitUV
    /\ InitNum
    /\ InitLoad
    /\ InitShims

NextUV ==
    \/ \E nuvalue \in UVCounts : NewUserdataUV(nuvalue)
    \/ \E val \in UVInputs : PushAny(val)
    \/ PopOne
    \/ \E idx \in StackIndices, n \in UVIndices : SetUservalue(idx, n)
    \/ \E idx \in StackIndices, n \in UVIndices : GetUservalue(idx, n)

SpecUV == InitUVSpec /\ [][NextUV]_vars

\* the caller's int64_t is any of Int64Inputs
InitNumSpec ==
    /\ InitThreads
    /\ InitRegistry(0)
    /\ InitDtor
    /\ InitUV
    /\ num_pc = "start"
    /\ num_arg \in Int64Inputs
    /\ num_top = Double(FALSE, 0, 0, FALSE)
    /\ num_result = Int64(FALSE, 0, 0)
    /\ InitLoad
    /\ InitShims

NextNum ==
    \/ PushInteger
    \/ \E d \in DoubleInputs : PushNumber(d)
    \/ ToInteger

SpecNum == InitNumSpec /\ [][NextNum]_vars

InitLoadSpec ==
    /\ InitThreads
    /\ InitRegistry(0)
    /\ InitDtor
    /\ InitUV
    /\ InitNum
    /\ InitLoad
    /\ InitShims

NextLoad ==
    \/ \E bytecode \in CompilerOutputs, res \in NativeResults :
        \/ \E str \in Sources : LoadString(str, bytecode, res)
        \/ \E buff \in Sources, name \in ChunkNames :
               LoadBuffer(buff, name, bytecode, res)
    \/ TakeLoadResult

SpecLoad == InitLoadSpec /\ [][NextLoad]_vars

NextLoadFile ==
    \/ \E bytecode \in CompilerOutputs, res \in NativeResults :
        \/ \E str \in Sources : LoadString(str, bytecode, res)
        \/ \E buff \in Sources, name \in ChunkNames :
               LoadBuffer(buff, name, bytecode, res)
        \/ \E filename \in Paths, f \in FileStates :
               LoadFile(filename, f, bytecode, res)
    \/ TakeLoadResult

SpecLoadFile == InitLoadSpec /\ [][NextLoadFile]_vars

\* the stack holds any values when the shims are called
InitStackSpec ==
    /\ InitThreads
    /\ InitRegistry(0)
    /\ InitDtor
    /\ \E stack \in Stacks : L = [stack |-> stack, env |-> <<>>, tables |-> <<>>]
    /\ uv_shadow = [u \in UdIds |-> [n \in UVIndices |-> Nil]]
    /\ uv_last = NoCall
    /\ InitNum
    /\ InitLoad
    /\ InitShims

NextStack ==
    \/ \E idx \in ShimIndices, n \in RotateCounts : Rotate(idx, n)
    \/ RotateBack
    \/ \E fromidx, toidx \in ShimIndices : Copy(fromidx, toidx)

SpecStack == InitStackSpec /\ [][NextStack]_vars

\* a metatable with any of the metadata already stored, somewhere on the stack
InitMetaSpec ==
    /\ InitThreads
    /\ InitRegistry(0)
    /\ InitDtor
    /\ \E q \in MetaStacks, mt \in MetaTables :
           L = [stack |-> q, env |-> <<>>, tables |-> <<mt>>]
    /\ uv_shadow = [u \in UdIds |-> [n \in UVIndices |-> Nil]]
    /\ uv_last = NoCall
    /\ InitNum
    /\ InitLoad
    /\ InitShims

NextMeta ==
    \E metatable_index \in ShimIndices, key \in MetaKeys, value \in MetaValues :
        StoreOnMetatableIfAbsent(metatable_index, key, value)

SpecMeta == InitMetaSpec /\ [][NextMeta]_vars

InitDebugSpec ==
    /\ InitThreads
    /\ InitRegistry(0)
    /\ InitDtor
    /\ InitUV
    /\ InitNum
    /\ InitLoad
    /\ InitShims

NextDebug ==
    \E t \in Threads :
        \/ \E level \in Levels : GetStack(t, level)
        \/ GetInfo(t)
        \/ GetLocal(t)
        \/ EnterFunction(t)
        \/ LeaveFunction(t)

SpecDebug == InitDebugSpec /\ [][NextDebug]_vars

NextFrame ==
    \E t \in FrameThreads :
        \/ \E level \in Levels, h \in FrameIds : capture_frame(t, level, h)
        \/ \E h \in FrameIds : query_frame(t, h)
        \/ \E h \in FrameIds : get_local(t, h)
        \/ EnterFunction(t)
        \/ LeaveFunction(t)

SpecFrame == InitDebugSpec /\ [][NextFrame]_vars

InitHookSpec ==
    /\ InitThreads
    /\ InitRegistry(0)
    /\ InitDtor
    /\ InitUV
    /\ InitNum
    /\ InitLoad
    /\ InitShims

NextHook ==
    \/ \E fn \in HookFns, mask \in HookMasks, count \in HookCounts :
           SetHook(fn, mask, count)
    \/ GetHook
    \/ GetHookMask
    \/ GetHookCount

SpecHook == InitHookSpec /\ [][NextHook]_vars

InitIoSpec ==
    /\ InitThreads
    /\ InitRegistry(0)
    /\ InitDtor
    /\ InitUV
    /\ InitNum
    /\ InitLoad
    /\ InitShims

NextIo ==
    \E h \in HandleIds :
        \/ \E mode \in IoModes : IoOpen(h, mode)
        \/ \E str \in IoStrings : FileWrite(h, str)
        \/ FileReadAll(h)
        \/ FileClose(h)

SpecIo == InitIoSpec /\ [][NextIo]_vars

NextIoLines ==
    \E h \in HandleIds :
        \/ \E mode \in IoModes : IoOpen(h, mode)
        \/ \E str \in IoLineStrings : FileWrite(h, str)
        \/ FileReadAll(h)
        \/ FileClose(h)
        \/ FileLinesNext(h)
        \/ IoLines(h)
        \/ IoLinesNext(h)
        \/ Finalize(h)

SpecIoLines == InitIoSpec /\ [][NextIoLines]_vars

----------------------------------------------------------------------------
(* The tag registry: claims *)

\* C1: whatever the interleaving of the threads, all the calls made with one
\* name returned one and the same tag.
SameNameSameTag ==
    \A n \in CallNames : Cardinality(returned[n]) <= 1

\* C1 witness: two threads raced to register one new name (neither saw it
\* registered when it called) and both hold the tag they were given.
SameNameRaced ==
    \E t1, t2 \in Threads :
        /\ t1 # t2
        /\ pc[t1] = "got" /\ pc[t2] = "got"
        /\ metatable_name[t1] = metatable_name[t2]
        /\ h_prev[t1] = 0 /\ h_prev[t2] = 0
        /\ ret[t1] > 0

\* C2 as stated: calls with different names never returned the same tag.
DistinctNamesDistinctTags ==
    \A a, b \in CallNames : a # b => returned[a] \cap returned[b] = {}

\* C2 amended: calls with different names never returned the same nonzero
\* tag (0, the untagged fallback, is shared by every name that came too late):
\* a nonzero tag that was returned for a name is held in the registry by that
\* name and by no other, older names included.
DistinctNamesDistinctNonzeroTags ==
    /\ \A a, b \in CallNames : a # b => (returned[a] \cap returned[b]) \ {0} = {}
    /\ \A a \in CallNames : \A x \in returned[a] \ {0} :
           {n \in DOMAIN tag_map : tag_map[n] = x} = {a}

\* C2 witness: two names hold nonzero tags while a third was given 0.
TwoTaggedOneRefused ==
    \E a, b \in CallNames, c \in Names :
        /\ a # b
        /\ \E x \in returned[a] : x > 0
        /\ \E y \in returned[b] : y > 0
        /\ 0 \in returned[c]

\* C3: a call that began after MAX_USERDATA_TAGS distinct names had been
\* passed returned 0 if its name was new, and the tag the name already had
\* if it was registered.
ExhaustedReturnsZero ==
    \A t \in Threads :
        (pc[t] = "got" /\ h_full[t]) =>
            /\ h_new[t] => ret[t] = 0
            /\ h_prev[t] # 0 => ret[t] = h_prev[t]

\* C3 witness: with MAX_USERDATA_TAGS names passed, one thread was refused a
\* new name and the other was given a registered name's nonzero tag again.
ExhaustedBothCases ==
    \E t1, t2 \in Threads :
        /\ pc[t1] = "got" /\ h_full[t1] /\ h_new[t1] /\ ret[t1] = 0
        /\ pc[t2] = "got" /\ h_full[t2] /\ h_prev[t2] > 0 /\ ret[t2] = h_prev[t2]

----------------------------------------------------------------------------
(* Destructors and tagged userdata: claims *)

\* C4: a tag's destructor, once bound, is never changed by a later
\* register_destructor.
DestructorWriteOnce ==
    [][\A tg \in DOMAIN udatagc : udatagc'[tg] = udatagc[tg]]_vars

\* C5: no tag reaches lua_setuserdatadtor from two threads that each called
\* get_or_create_tag and then register_destructor.
NoDuplicateRegistration ==
    \A t1, t2 \in Threads :
        t1 # t2 => dtor_after_get[t1] \cap dtor_after_get[t2] = {}

\* C6: newuserdata_tagged asks for a tagged allocation only with a tag that
\* register_destructor accepts.
TaggedOnlyIfRegistrable ==
    alloc.kind = "tagged" => DtorTagAccepted(alloc.tag)

----------------------------------------------------------------------------
(* User values: claims *)

----------------------------------------------------------------------------
(* 64-bit integers: claims *)

\* C8: an int64_t of magnitude at most 2^53, pushed with lua_pushinteger_64
\* and read back with lua_tointeger_64, comes back unchanged.
RoundTripWithin2Pow53 ==
    (num_pc = "read" /\ Within2Pow53(num_arg)) => num_result = num_arg

\* C8 witness: -2^53 itself made the round trip.
RoundTripAt2Pow53 ==
    /\ num_pc = "read"
    /\ num_arg = Int64(TRUE, Pow2(23), 0)
    /\ num_result = num_arg

\* beyond 2^53 the round trip loses precision: 2^53 + 1 comes back as 2^53
PrecisionLostBeyond ==
    /\ num_pc = "read"
    /\ num_arg = Int64(FALSE, Pow2(23), 1)
    /\ num_result = Int64(FALSE, Pow2(23), 0)

----------------------------------------------------------------------------
(* Loading: claims *)

\* C9: when the compiler's output is empty or begins with a 0 byte, the load
\* returns LUA_ERRSYNTAX, luau_load is not called, and the message pushed is
\* the bytes after the first one, or "compilation failed" when there are
\* none; it is never empty.
CompileErrorReported ==
    (load.entry # "none" /\ (load.bytecode = <<>> \/ load.bytecode[1] = 0)) =>
        /\ load.status = "LUA_ERRSYNTAX"
        /\ ~load.native.called
        /\ load.pushed = "message"
        /\ load.msg = IF Len(load.bytecode) > 1 THEN Tail(load.bytecode)
                      ELSE CompilationFailed
        /\ load.msg # <<>>

\* C9 witness: luaL_loadstring reported the diagnostic ":1" of a failed compile.
DiagnosticReported ==
    /\ load.entry = "loadstring"
    /\ load.bytecode = <<0, 58, 49>>
    /\ load.status = "LUA_ERRSYNTAX"
    /\ load.msg = <<58, 49>>

\* C10 as stated: a first byte of 0 leads to luau_load with the buffer, any
\* other first byte to a compile failure with the rest of the buffer as message.
ZeroByteMeansSuccess ==
    (load.entry # "none" /\ load.bytecode # <<>>) =>
        IF load.bytecode[1] = 0
        THEN load.native.called /\ load.native.data = load.bytecode
        ELSE /\ load.status = "LUA_ERRSYNTAX"
             /\ load.msg = Tail(load.bytecode)

\* C10 amended: a first byte of 0 is a compile failure, with the rest of the
\* buffer as message; any other first byte leads to luau_load, which gets the
\* whole buffer and whose result is the load's result, no message being pushed
\* by the shim.
ZeroByteMeansFailure ==
    (load.entry # "none" /\ load.bytecode # <<>>) =>
        IF load.bytecode[1] = 0
        THEN /\ load.status = "LUA_ERRSYNTAX"
             /\ ~load.native.called
             /\ Len(load.bytecode) > 1 => load.msg = Tail(load.bytecode)
        ELSE /\ load.native.called
             /\ load.native.data = load.bytecode
             /\ load.status \in NativeResults
             /\ load.pushed # "message"

\* C10 witness: luaL_loadbuffer handed bytecode holding a 0 byte after its
\* first byte to luau_load, whole, and returned luau_load's failure.
BytecodeHandedOver ==
    /\ load.entry = "loadbuffer"
    /\ load.bytecode = <<6, 0, 1>>
    /\ load.native.called
    /\ load.native.data = <<6, 0, 1>>
    /\ load.status = "load failed"

----------------------------------------------------------------------------
(* Loading through the three entry points: claims *)

\* C11 as stated: whichever entry point loaded the source, the three entry
\* points given the same bytes (the string entry when the bytes hold no NUL,
\* the buffer entry under the file's name, the file entry on a file read in
\* full) have the same outcome: status, message, and call of luau_load, chunk
\* name included.
SameOutcomeSameLoaderCall ==
    load.compiled =>
        LET src == load.source
            bc == load.bytecode
            res == IF load.native.called THEN load.status ELSE "LUA_OK"
            Outcome(r) == [status |-> r.status, pushed |-> r.pushed,
                           msg |-> r.msg, native |-> r.native]
        IN  \A filename \in Paths :
                LET byFile == luaL_loadfile(filename, ReadableFile(src), bc, res)
                IN  /\ Outcome(luaL_loadbuffer(src, filename, bc, res)) = Outcome(byFile)
                    /\ CStr(src) = src =>
                           Outcome(luaL_loadstring(src, bc, res)) = Outcome(byFile)
                    /\ load.entry = "loadfile" /\ file.path = filename =>
                           Outcome(load) = Outcome(byFile)

\* C11 amended: the three entry points given the same bytes return the same
\* status, push the same message on a compile failure and hand the same
\* bytecode to luau_load on success; the chunk name of that call is "chunk"
\* for the string entry, the caller's name for the buffer entry and the path
\* for the file entry.
SameOutcomeOwnChunkName ==
    load.compiled =>
        LET src == load.source
            bc == load.bytecode
            res == IF load.native.called THEN load.status ELSE "LUA_OK"
            Outcome(r) == [status |-> r.status, pushed |-> r.pushed,
                           msg |-> r.msg, called |-> r.native.called,
                           data |-> r.native.data]
            Named(r, name) == r.native.called => r.native.chunkname = name
        IN  /\ \A name \in ChunkNames :
                LET byBuffer == luaL_loadbuffer(src, name, bc, res)
                IN  Outcome(byBuffer) = Outcome(load) /\ Named(byBuffer, name)
            /\ \A filename \in Paths :
                LET byFile == luaL_loadfile(filename, ReadableFile(src), bc, res)
                IN  Outcome(byFile) = Outcome(load) /\ Named(byFile, filename)
            /\ CStr(src) = src =>
                LET byString == luaL_loadstring(src, bc, res)
                IN  Outcome(byString) = Outcome(load) /\ Named(byString, "chunk")

\* C11 witness: luaL_loadfile read a file of two bytes without NUL in full
\* and handed its bytecode to luau_load under the file's name.
FileLoadedLikeString ==
    /\ load.entry = "loadfile"
    /\ file.opens /\ Len(file.data) = 2 /\ CStr(file.data) = file.data
    /\ load.source = file.data
    /\ load.native.called
    /\ load.native.chunkname = file.path

\* C12: luaL_loadfile returns LUA_ERRFILE with "cannot open <path>" when the
\* file cannot be opened, and with "cannot read <path>" when it was opened
\* but not read in full; neither the compiler nor luau_load is called.
FileErrorsReported ==
    load.entry = "loadfile" =>
        /\ ~file.opens =>
               /\ load.status = "LUA_ERRFILE"
               /\ load.msg = CannotOpen \o FileNameBytes[file.path]
               /\ ~load.compiled /\ ~load.native.called
        /\ (file.opens /\ Len(file.data) # file.size) =>
               /\ load.status = "LUA_ERRFILE"
               /\ load.msg = CannotRead \o FileNameBytes[file.path]
               /\ ~load.compiled /\ ~load.native.called

----------------------------------------------------------------------------
(* Stack manipulation: claims *)

\* C13: after lua_rotate(idx, n) with a valid idx and |n| at most the length
\* of the segment idx..top, the stack is arranged as Lua 5.4's lua_rotate
\* arranges it: below idx unchanged; for n > 0 the top n elements of the
\* segment now start at idx, followed by the others; for n < 0 the bottom -n
\* elements of the segment are now at the top, preceded by the others.
RotatesLikeNative ==
    st_last.op = "rotate" =>
        LET before == st_last.before
            t == Len(before)
            idx == IF st_last.idx > 0 THEN st_last.idx ELSE t + st_last.idx + 1
            seg == SubSeq(before, idx, t)
            len == Len(seg)
            n == st_last.n
            native == IF n >= 0
                      THEN SubSeq(seg, len - n + 1, len) \o SubSeq(seg, 1, len - n)
                      ELSE SubSeq(seg, 1 - n, len) \o SubSeq(seg, 1, -n)
        IN  (n <= len /\ -n <= len) =>
                L.stack = SubSeq(before, 1, idx - 1) \o native

\* C14: lua_rotate(idx, n) followed by lua_rotate(idx, -n), on a stack of 3
\* or more elements, leaves the stack as it was before the two calls.
RotateThenInverseRestores ==
    (st_last.op = "rotate back" /\ Len(st_last.before) >= 3) =>
        L.stack = st_last.before

\* C14 witness: a stack of three distinct values was rotated by one from its
\* base and back.
RotatedAndRestored ==
    /\ st_last.op = "rotate back"
    /\ st_last.before = <<Nil, Str(1), Str(2)>>
    /\ st_last.idx = 1
    /\ st_last.n = 1
    /\ L.stack = st_last.before

\* C15: lua_copy(from, to) with valid indices, absolute or relative to the
\* top, leaves the stack as high as it was, slot to holding the value that
\* was at from, and every other slot as it was.
CopyWritesOnlyTarget ==
    st_last.op = "copy" =>
        LET before == st_last.before
            t == Len(before)
            from == IF st_last.idx > 0 THEN st_last.idx ELSE t + st_last.idx + 1
            to == IF st_last.n > 0 THEN st_last.n ELSE t + st_last.n + 1
        IN  /\ Len(L.stack) = t
            /\ L.stack[to] = before[from]
            /\ \A i \in 1..t : i # to => L.stack[i] = before[i]

----------------------------------------------------------------------------
(* Debug frames: claims *)

\* C16: lua_getstack(level) returns 0 (not found) exactly when level is
\* negative or at least the stack depth, and 1 for every level in 0..depth-1.
CaptureFailsExactlyOutOfRange ==
    \A t \in Threads :
        dbg_ret[t] # NoCapture =>
            /\ dbg_ret[t].result \in {0, 1}
            /\ dbg_ret[t].result = 1 <=> dbg_ret[t].in_range

\* C16 witness: one thread was refused the level equal to its depth, the
\* other was given the deepest level of its stack.
CaptureAtBothEdges ==
    \E t1, t2 \in Threads :
        /\ dbg_ret[t1].result = 0 /\ dbg_ret[t1].level = depth[t1] /\ depth[t1] > 0
        /\ dbg_ret[t2].result = 1 /\ dbg_ret[t2].level = depth[t2] - 1
        /\ dbg_ret[t2].level > 0

\* C17: when a thread's last lua_getstack succeeded for a level, the queries
\* it has made since (luau_getinfo_3arg, luau_getlocal_3arg) passed that
\* level to the native lua_getinfo / lua_getlocal.
QueryUsesCapturedLevel ==
    \A t \in Threads :
        (queried[t] # NoQuery /\ dbg_ret[t].result = 1) =>
            queried[t].level = dbg_ret[t].level

\* C17 witness: a thread captured level 1 and its lua_getlocal query used
\* level 1, after the other thread had captured level 0.
QueriedCapturedLevel ==
    \E t, u \in Threads :
        /\ t # u
        /\ dbg_ret[t].result = 1 /\ dbg_ret[t].level = 1
        /\ queried[t] = [fn |-> "lua_getlocal", level |-> 1]
        /\ dbg_ret[u].result = 1 /\ dbg_ret[u].level = 0

\* C18: a lua_getstack call on one thread leaves the level stored for every
\* other thread unchanged.
CursorIsThreadLocal ==
    [][\A t \in Threads :
          (\E level \in Levels : GetStack(t, level)) =>
              \A u \in Threads \ {t} :
                  s_current_debug_level'[u] = s_current_debug_level[u]]_vars

\* C18 witness: both threads captured successfully, different levels, and
\* each thread's stored level is the one it captured itself.
CursorsDiffer ==
    \E t, u \in Threads :
        /\ dbg_ret[t].result = 1 /\ dbg_ret[u].result = 1
        /\ dbg_ret[t].level # dbg_ret[u].level
        /\ s_current_debug_level[t] = dbg_ret[t].level
        /\ s_current_debug_level[u] = dbg_ret[u].level

----------------------------------------------------------------------------
(* Hooks: claims *)

\* C19: whatever lua_sethook was called with, the VM holds no hook,
\* lua_sethook returned 0, lua_gethook returns the null hook, and
\* lua_gethookmask and lua_gethookcount return 0.
NoHookEverInstalled ==
    /\ hook = NoHook
    /\ hook_ret.fn = "lua_sethook" => hook_ret.value = 0
    /\ hook_ret.fn = "lua_gethook" => hook_ret.value = "null"
    /\ hook_ret.fn = "lua_gethookmask" => hook_ret.value = 0
    /\ hook_ret.fn = "lua_gethookcount" => hook_ret.value = 0

\* C19 witness: after lua_sethook with a hook function, every mask bit and a
\* count, lua_gethook returned the null hook.
HookAskedNoneInstalled ==
    /\ hook_ret.asked = [fn |-> "f", mask |-> 15, count |-> 1000]
    /\ hook_ret.fn = "lua_gethook"
    /\ hook_ret.value = "null"

----------------------------------------------------------------------------
(* The io library: claims *)

\* C20: after io.open(path, "w"), write(s) and close(), read("*a") on a
\* handle from io.open(path, "r") returns exactly s, for every string s; and
\* the write on the open handle returned the handle, not nil.
WrittenStringReadBack ==
    /\ io_hist.stage = "written" => io_ret.kind = "handle"
    /\ io_hist.stage = "read" =>
           io_ret.kind = "string" /\ io_ret.bytes = io_hist.s

----------------------------------------------------------------------------
(* The tag registry: the limit and the order of the tags *)

\* C21: a call that began while fewer than MAX_USERDATA_TAGS distinct names
\* had been passed (so its name is one of the first MAX_USERDATA_TAGS) gets a
\* nonzero tag in 1..MAX_USERDATA_TAGS; 0 is returned only beyond that.
FirstNamesAllTagged ==
    \A t \in Threads :
        (pc[t] = "got" /\ ~h_full[t]) => ret[t] \in 1..MAX_USERDATA_TAGS

\* C22: the registry starts with the tags 1..k for its k names, and every
\* step that registers a name gives it the tag k + 1, k being the number of
\* names registered before, and changes no other name's tag: the tags are
\* handed out as 1, 2, 3, ... in the order in which the names enter the
\* registry under the lock, and at every moment they are exactly 1..k.
TagsHandedOutInOrder ==
    /\ {tag_map[n] : n \in DOMAIN tag_map} = 1..Cardinality(DOMAIN tag_map)
    /\ [][tag_map' # tag_map =>
            \E n \in DOMAIN tag_map' \ DOMAIN tag_map :
                /\ DOMAIN tag_map' = DOMAIN tag_map \cup {n}
                /\ tag_map'[n] = Cardinality(DOMAIN tag_map) + 1
                /\ \A m \in DOMAIN tag_map : tag_map'[m] = tag_map[m]]_vars

\* C22 witness: two names were registered one after the other by the calls
\* of the model and hold consecutive tags, the later name the higher one.
ConsecutiveTags ==
    \E a, b \in Names :
        /\ a \in DOMAIN tag_map /\ b \in DOMAIN tag_map
        /\ tag_map[b] = tag_map[a] + 1
        /\ tag_map[b] = Cardinality(DOMAIN tag_map)
        /\ returned[a] = {tag_map[a]} /\ returned[b] = {tag_map[b]}

----------------------------------------------------------------------------
(* Debug frames: the handle passed to a query *)

\* C23: a query (query_frame or get_local) is answered for the level of the
\* most recent successful capture of its thread, whichever handle it passes
\* and whatever level that handle was captured with.
QueryIgnoresHandle ==
    \A t \in FrameThreads, h \in FrameIds :
        (queried[t].fn # "none" /\ ar_hist.passed = h /\ ar_hist.last_ok # -1)
            => queried[t].level = ar_hist.last_ok

\* C23 witness: two handles captured with different levels, the second one
\* last, and a query that passed the first was answered for the second's level.
QueriedWithOlderHandle ==
    \E t \in FrameThreads, h1, h2 \in FrameIds :
        /\ h1 # h2
        /\ ar_hist.captured[h1] >= 0 /\ ar_hist.captured[h2] >= 0
        /\ ar_hist.captured[h1] # ar_hist.captured[h2]
        /\ ar_hist.last_ok = ar_hist.captured[h2]
        /\ ar_hist.passed = h1
        /\ queried[t].level = ar_hist.captured[h2]

\* C27: a capture that returns not-found changes neither the thread-local
\* levels nor any field of any lua_Debug, and a query made after it is
\* answered for the level of the last successful capture, or for level 0 if
\* no capture has succeeded.
FailedCaptureChangesNothing ==
    /\ [][\A t \in FrameThreads, level \in Levels, h \in FrameIds :
            (capture_frame(t, level, h) /\ dbg_ret'[t].result = 0)
                => (s_current_debug_level' = s_current_debug_level /\ ar' = ar)]_vars
    /\ [](\A t \in FrameThreads :
            (dbg_ret[t].result = 0 /\ queried[t].fn # "none")
                => queried[t].level =
                       IF ar_hist.last_ok = -1 THEN 0 ELSE ar_hist.last_ok)

\* C27 witness: a handle was captured at a level above 0, a capture with the
\* other, unwritten handle then failed, and the query after it was answered
\* for the captured level.
QueriedAfterFailedCapture ==
    \E t \in FrameThreads, h \in FrameIds :
        /\ dbg_ret[t].result = 0
        /\ ar_hist.last_ok > 0
        /\ ar[h] = ArUnset
        /\ queried[t] = [fn |-> "lua_getinfo", level |-> ar_hist.last_ok]

----------------------------------------------------------------------------
(* Metatable metadata: claims *)

\* C24: store_on_metatable_if_absent leaves the stack as it found it; when the
\* key held nil it returns true and the metatable then holds the pushed value
\* under the key, nothing else changed; when the key held a value it returns
\* false and changes nothing. This for absolute and negative indices.
StoreOnce ==
    mt_last.op = "store" =>
        LET b == mt_last.before
            mt == At(b, mt_last.idx).v
            old == RawGet(b.tables[mt], mt_last.key)
        IN  /\ L.stack = b.stack
            /\ old = Nil =>
                 /\ mt_last.result
                 /\ L.tables[mt] = RawSet(b.tables[mt], mt_last.key, mt_last.value)
                 /\ RawGet(L.tables[mt], mt_last.key) = mt_last.value
            /\ old # Nil =>
                 /\ ~mt_last.result
                 /\ L = b

\* C24 witness: through a negative index naming a metatable below the top, a
\* call pushing a string found the key holding false, returned false and
\* left the false in place.
StoredOnceThenKept ==
    /\ mt_last.op = "store"
    /\ mt_last.idx < -1
    /\ ~mt_last.result
    /\ mt_last.value = Str(3)
    /\ RawGet(L.tables[1], mt_last.key) = Bool(0)
    /\ Len(L.stack) = StackHeight

----------------------------------------------------------------------------
(* The io library: line iterators and closed handles *)

\* C25: a call of the io.lines iterator that finds lines left returns one
\* and keeps the file open; the first call that finds the end of the file
\* closes it and returns nil; every call after that returns nil and leaves
\* the handle as it is, its stream neither read nor closed again.
IoLinesClosesAtEof ==
    /\ [][\A h \in HandleIds :
            IoLinesNext(h) =>
                LET hd == handles[h]
                    at_eof == hd.pos >= Len(disk.bytes)
                IN  /\ (hd.is_open /\ ~at_eof) =>
                        /\ io_ret'.kind = "string"
                        /\ handles'[h].is_open /\ handles'[h].closes = 0
                    /\ (hd.is_open /\ at_eof) =>
                        /\ io_ret'.kind = "nil"
                        /\ ~handles'[h].is_open /\ ~handles'[h].stream
                        /\ handles'[h].closes = 1
                    /\ ~hd.is_open =>
                        /\ io_ret'.kind = "nil"
                        /\ handles'[h] = hd]_vars
    /\ [](\A h \in HandleIds :
            handles[h].lines => (handles[h].closes <= 1 /\ ~handles[h].misuse))

\* C25 witness: the iterator returned a line, closed the file at its end,
\* and was called once more on the closed file, returning nil.
IteratedPastTheEnd ==
    /\ io_last.op = "io.lines next" /\ ~io_last.was_open
    /\ io_ret.kind = "nil"
    /\ handles[io_last.h].closes = 1
    /\ handles[io_last.h].pos > 0

\* C26: on a handle that is closed, read and the lines iterators return nil,
\* write returns nil and "file is closed" and leaves the file as it is, close
\* returns true, and none of them changes the handle; the finalizer does not
\* close it again.  No stream is ever used while it is not open, and none is
\* closed twice.
ClosedHandleUntouched ==
    /\ [][\A h \in HandleIds :
            (handles[h].life = "live" /\ ~handles[h].is_open) =>
                /\ (FileReadAll(h) \/ FileLinesNext(h) \/ IoLinesNext(h)) =>
                       (io_ret'.kind = "nil" /\ handles'[h] = handles[h])
                /\ (\E str \in IoLineStrings : FileWrite(h, str)) =>
                       /\ io_ret'.kind = "nil, file is closed"
                       /\ handles'[h] = handles[h]
                       /\ disk' = disk
                /\ FileClose(h) =>
                       (io_ret'.kind = "true" /\ handles'[h] = handles[h])
                /\ Finalize(h) => handles'[h].closes = handles[h].closes]_vars
    /\ [](\A h \in HandleIds : handles[h].closes <= 1 /\ ~handles[h].misuse)

\* C26 witness: a handle that had written to the file was closed, and a later
\* write on it was refused while the file kept its bytes.
WriteRefusedAfterClose ==
    /\ io_last.op = "write" /\ ~io_last.was_open
    /\ io_ret.kind = "nil, file is closed"
    /\ handles[io_last.h].closes = 1
    /\ handles[io_last.h].has_write
    /\ disk.bytes # <<>>

----------------------------------------------------------------------------
(* Stack manipulation: what lua_rotate preserves *)

\* C28: lua_rotate(L, idx, n), for a valid idx and any n (0 and counts larger
\* than the segment included), leaves the height of the stack and the slots
\* below idx as they were, and leaves in idx..top the values that were there,
\* in a cyclic order of the old one; with n = 0 the stack is unchanged.
RotateIsCyclicOnSegment ==
    st_last.op = "rotate" =>
        LET b == st_last.before
            lo == IF st_last.idx > 0 THEN st_last.idx ELSE Len(b) + st_last.idx + 1
            len == Len(b) - lo + 1
        IN  /\ Len(L.stack) = Len(b)
            /\ \A i \in 1..(lo - 1) : L.stack[i] = b[i]
            /\ \E k \in 0..(len - 1) :
                   \A i \in 0..(len - 1) :
                       L.stack[lo + i] = b[lo + ((i + k) % len)]
            /\ st_last.n = 0 => L.stack = b

\* C28 witness: a count larger than the segment rotated a segment of two
\* distinct values that lies above an untouched slot, and moved them.
RotatedByMoreThanSegment ==
    /\ st_last.op = "rotate"
    /\ Len(st_last.before) = 3
    /\ st_last.idx = 2
    /\ st_last.n = 3
    /\ st_last.before[2] # st_last.before[3]
    /\ L.stack # st_last.before

----------------------------------------------------------------------------
(* Loading a file: the FILE is closed *)

\* C29: luaL_loadfile calls fclose exactly once when fopen succeeded and
\* never when it failed, and the fclose comes before the chunk is handed to
\* luaL_loadbuffer: it never ends with the file still open.
FileClosedExactlyOnce ==
    load.entry = "loadfile" =>
        LET closes == {i \in 1..Len(file.calls) : file.calls[i] = "fclose"}
            loads == {i \in 1..Len(file.calls) : file.calls[i] = "luaL_loadbuffer"}
        IN  /\ Cardinality(closes) = IF file.opens THEN 1 ELSE 0
            /\ \A i \in closes, j \in loads : i < j

----------------------------------------------------------------------------
(* User values: what a call leaves alone *)

\* C30: lua_setiuservalue(obj, n) takes exactly the value on top off the
\* stack, and a lua_getiuservalue of any other index or of any other userdata
\* then yields what it yielded before; lua_getiuservalue puts exactly one
\* value on the stack, with or without an environment table, and changes
\* nothing else.
UservalueCallsTouchOneSlot ==
    [][/\ uv_last'.op = "set" =>
            /\ L'.stack = SubSeq(L.stack, 1, Len(L.stack) - 1)
            /\ \A u \in 1..Len(L.env), m \in UVIndices :
                  (u # uv_last'.obj \/ m # uv_last'.n) =>
                      Top(lua_getiuservalue(Push(L', Ud(u)), -1, m))
                          = Top(lua_getiuservalue(Push(L, Ud(u)), -1, m))
       /\ uv_last'.op = "get" =>
            /\ Len(L'.stack) = Len(L.stack) + 1
            /\ SubSeq(L'.stack, 1, Len(L.stack)) = L.stack
            /\ L'.env = L.env
            /\ L'.tables = L.tables]_vars

\* C30 witness: a value was set at one index of a userdata whose other index
\* holds a value set earlier, while another userdata exists; the set left
\* only the userdata on the stack.
SetBesideOtherSlots ==
    /\ uv_last.op = "set"
    /\ uv_shadow[uv_last.obj][uv_last.n] # Nil
    /\ \E m \in UVIndices : m # uv_last.n /\ uv_shadow[uv_last.obj][m] # Nil
    /\ Len(L.env) = 2
    /\ Len(L.stack) = 1

====
